---- MODULE Spec2Model ----
(***************************************************************************)
(* A model of the MCP23017 driver (controller) and emulator (peripheral).  *)
(*                                                                         *)
(*   common/src/lib.rs       register kinds, banks, address mapping        *)
(*   controller/src/util.rs  bit packing                                   *)
(*   controller/src/register.rs, lib.rs, runner.rs, pin.rs                 *)
(*                           the two runners, the slots and the handles    *)
(*   peripheral/src/mcp23017.rs                                            *)
(*                           the emulated register file                    *)
(***************************************************************************)
EXTENDS Integers, Sequences, FiniteSets, TLC

VARIABLES
    pure,       \* harness of the pure functions: [fn, arg, out, step]
    per,        \* the peripheral (Mcp23017 of peripheral/src/mcp23017.rs)
    pins,       \* controller: the 16 slots (Request: op, state) and their signals
    run,        \* controller: the runner (which runner, position, cache, locals)
    hnd,        \* controller: the pin handles (Pin<Mode>) and their pending calls
    bus         \* controller: what the runner has put on the bus and the pins

vars == <<pure, per, pins, run, hnd, bus>>
ctl == <<pins, run, hnd, bus>>

-----------------------------------------------------------------------------
(* common/src/lib.rs                                                       *)

N_GPIO_PINS_PER_SET == 8
AB_COUNT == 2
N_TOTAL_GPIO_PINS == N_GPIO_PINS_PER_SET * AB_COUNT
RegisterType_COUNT == 11

A == 0
B == 1
AB_VARIANTS == <<A, B>>

IODIR == 0
IPOL == 1
GPINTEN == 2
DEFVAL == 3
INTCON == 4
IOCON == 5
GPPU == 6
INTF == 7
INTCAP == 8
GPIO == 9
OLAT == 10

Pins == 0 .. (N_TOTAL_GPIO_PINS - 1)
Kinds == 0 .. (RegisterType_COUNT - 1)
Bytes == 0 .. 255

\* AB::set_index, AB::starting_index, AB::range, AB::from_index
set_index(ab) == IF ab = A THEN 0 ELSE 1
starting_index(ab) == set_index(ab) * N_GPIO_PINS_PER_SET
range(ab) ==
    (set_index(ab) * N_GPIO_PINS_PER_SET) .. ((set_index(ab) + 1) * N_GPIO_PINS_PER_SET - 1)
from_index(index) == IF index \div N_GPIO_PINS_PER_SET = 0 THEN A ELSE B

\* Option<T>
None == [some |-> FALSE]
Some(x) == [some |-> TRUE, v |-> x]

\* RegisterType::from_repr: None for a value that is no discriminant
from_repr(n) == IF n \in Kinds THEN Some(n) ELSE None

\* (a slip: bank B of BANK=1 taken to start at the bank's first pin index)
from_address_PinOffset(address, bank_mode) ==
    LET ab == IF bank_mode
                THEN (IF address < N_GPIO_PINS_PER_SET THEN A ELSE B)
                ELSE (IF address % 2 = 0 THEN A ELSE B)
        ty == IF bank_mode
                THEN (IF address < N_GPIO_PINS_PER_SET
                        THEN from_repr(address)
                        ELSE from_repr(address - N_GPIO_PINS_PER_SET))
                ELSE from_repr(address \div 2)
    IN  IF ty = None THEN None ELSE Some([type |-> ty.v, ab |-> ab])
\* Register::from_address (u8 arithmetic; the subtraction is guarded by the
\* comparison before it)
from_address(address, bank_mode) ==
    LET ab == IF bank_mode
                THEN (IF address < RegisterType_COUNT THEN A ELSE B)
                ELSE (IF address % 2 = 0 THEN A ELSE B)
        ty == IF bank_mode
                THEN (IF address < RegisterType_COUNT
                        THEN from_repr(address)
                        ELSE from_repr(address - RegisterType_COUNT))
                ELSE from_repr(address \div 2)
    IN  IF ty = None THEN None ELSE Some([type |-> ty.v, ab |-> ab])

\* Register::address
address_of(register, bank_mode) ==
    IF bank_mode
      THEN (starting_index(register.ab) + register.type) % 256
      ELSE (register.type * 2 + set_index(register.ab)) % 256

Registers == [type : Kinds, ab : {A, B}]

-----------------------------------------------------------------------------
(* controller/src/util.rs                                                  *)

\* bit i of a byte: (self & (1 << i)) != 0
Pow2(i) == IF i = 0 THEN 1 ELSE IF i = 1 THEN 2 ELSE IF i = 2 THEN 4
           ELSE IF i = 3 THEN 8 ELSE IF i = 4 THEN 16 ELSE IF i = 5 THEN 32
           ELSE IF i = 6 THEN 64 ELSE 128
BitOf(byte, i) == (byte \div Pow2(i)) % 2 = 1

\* (a slip: the most significant bit first)
into_bits_le_MsbFirst(byte) == [i \in 0 .. 7 |-> BitOf(byte, 7 - i)]
\* IntoBits::into_bits_le: array::from_fn(|i| (self & (1 << i)) != 0)
into_bits_le(byte) == [i \in 0 .. 7 |-> BitOf(byte, i)]

\* FromBits::from_bits_le: fold(0, |acc, (i, b)| acc | ((b as u8) << i))
RECURSIVE FoldBits(_, _, _)
FoldBits(bits, i, acc) ==
    IF i = 8 THEN acc
    ELSE FoldBits(bits, i + 1,
                  IF bits[i] /\ ~BitOf(acc, i) THEN acc + Pow2(i) ELSE acc)
from_bits_le(bits) == FoldBits(bits, 0, 0)

-----------------------------------------------------------------------------
(* The pure functions are applied, one step at a time, to inputs drawn in  *)
(* the initial state.                                                      *)

PureIdle == [fn |-> "none", arg |-> 0, out |-> 0, step |-> 0]
PerIdle == [panicked |-> FALSE]
CtlIdle == pins = << >> /\ run = [pc |-> "none"] /\ hnd = << >> /\ bus = << >>

InitAddress ==
    /\ pure \in [fn : {"address"}, arg : [register : Registers, bank_mode : BOOLEAN],
                 out : {0}, step : {0}]
    /\ per = PerIdle
    /\ CtlIdle

\* Register{kind, bank}.address(mode)
ApplyAddress ==
    /\ pure.fn = "address" /\ pure.step = 0
    /\ pure' = [pure EXCEPT !.out = address_of(pure.arg.register, pure.arg.bank_mode),
                            !.step = 1]
    /\ UNCHANGED <<per, ctl>>

\* Register::from_address(that address, mode)
ApplyFromAddress ==
    /\ pure.fn = "address" /\ pure.step = 1
    /\ pure' = [pure EXCEPT !.out = from_address(pure.out, pure.arg.bank_mode),
                            !.step = 2]
    /\ UNCHANGED <<per, ctl>>

NextAddress == ApplyAddress \/ ApplyFromAddress
SpecAddress == InitAddress /\ [][NextAddress]_vars

\* C10: for every register kind, bank and BANK mode, decoding the address
\* of Register{kind, bank} gives Register{kind, bank} back.
C10_RoundTrip ==
    (pure.fn = "address" /\ pure.step = 2) => pure.out = Some(pure.arg.register)

-----------------------------------------------------------------------------
(* controller/src/register.rs and write_operation of controller/src/lib.rs *)

\* (a slip: the byte of bank A taken for either bank)
BankByte_OfA(values, ab) == from_bits_le([i \in 0 .. 7 |-> values[i]])
\* new_values[ab.range()] packed: u8::from_bits_le(new[ab.range()])
BankByte(values, ab) == from_bits_le([i \in 0 .. 7 |-> values[starting_index(ab) + i]])
\* &current_values[ab.range()] != &new_values[ab.range()]
BankDiffers(current, new, ab) == \E i \in range(ab) : current[i] # new[i]

\* write_registers: the buffers it hands to i2c.write, in order (none or one)
write_registers(register, current_values, new_values) ==
    LET write_a == BankDiffers(current_values, new_values, A)
        write_b == BankDiffers(current_values, new_values, B)
        write_count == (IF write_a THEN 1 ELSE 0) + (IF write_b THEN 1 ELSE 0)
        new_a_byte == BankByte(new_values, A)
        new_b_byte == BankByte(new_values, B)
    IN  IF write_count > 0
          THEN << CASE write_a /\ ~write_b ->
                         <<address_of([type |-> register, ab |-> A], FALSE), new_a_byte>>
                    [] ~write_a /\ write_b ->
                         <<address_of([type |-> register, ab |-> B], FALSE), new_b_byte>>
                    [] write_a /\ write_b ->
                         <<address_of([type |-> register, ab |-> A], FALSE),
                           new_a_byte, new_b_byte>> >>
          ELSE << >>

\* write_operation: Some(buffer of the Write operation) or None
RECURSIVE PushBanks(_, _, _, _)
PushBanks(current, new, k, buffer) ==
    IF k > Len(AB_VARIANTS) THEN buffer
    ELSE PushBanks(current, new, k + 1,
                   IF BankDiffers(current, new, AB_VARIANTS[k])
                     THEN Append(buffer, BankByte(new, AB_VARIANTS[k]))
                     ELSE buffer)
write_operation(register, current, new) ==
    IF current # new
      THEN LET modified_a == BankDiffers(current, new, A)
               pushed == PushBanks(current, new, 1, <<0>>)
           IN  Some([pushed EXCEPT ![1] =
                       address_of([type |-> register,
                                   ab |-> IF modified_a THEN A ELSE B], FALSE)])
      ELSE None

\* The 16-bit vectors the write functions are applied to: NVaryBits bit
\* positions of each bank vary (positions 0, 7, 6, ...), the others are FALSE.
NVaryBits == 2
VaryPins == {b * N_GPIO_PINS_PER_SET + ((8 - j) % 8) : b \in {0, 1}, j \in 0 .. (NVaryBits - 1)}
BitVectors == {[i \in Pins |-> i \in on] : on \in SUBSET VaryPins}

InitWrite ==
    /\ pure \in [fn : {"write_registers", "write_operation"},
                 arg : [register : Kinds, current : BitVectors, new : BitVectors],
                 out : {0}, step : {0}]
    /\ per = PerIdle
    /\ CtlIdle

ApplyWriteRegisters ==
    /\ pure.fn = "write_registers" /\ pure.step = 0
    /\ pure' = [pure EXCEPT
                  !.out = write_registers(pure.arg.register, pure.arg.current, pure.arg.new),
                  !.step = 1]
    /\ UNCHANGED <<per, ctl>>

ApplyWriteOperation ==
    /\ pure.fn = "write_operation" /\ pure.step = 0
    /\ pure' = [pure EXCEPT
                  !.out = LET o == write_operation(pure.arg.register, pure.arg.current,
                                                   pure.arg.new)
                          IN  IF o = None THEN << >> ELSE <<o.v>>,
                  !.step = 1]
    /\ UNCHANGED <<per, ctl>>

NextWrite == ApplyWriteRegisters \/ ApplyWriteOperation
SpecWrite == InitWrite /\ [][NextWrite]_vars

\* C6: for every kind and every (cached, new) pair the runner emits at most
\* one bus write for the kind: none when no bank differs, [addr(K,A), byteA]
\* when only A differs, [addr(K,B), byteB] when only B differs and
\* [addr(K,A), byteA, byteB] when both differ; bit i of byteX is the new
\* value of pin 8X+i.
C6_PacksBank(byte, new, bank) ==
    /\ byte \in Bytes
    /\ \A i \in 0 .. 7 : ((byte \div (2 ^ i)) % 2 = 1) <=> new[8 * bank + i]
C6_OneWritePerKind ==
    (pure.fn \in {"write_registers", "write_operation"} /\ pure.step = 1) =>
        LET K == pure.arg.register
            cur == pure.arg.current
            new == pure.arg.new
            dA == \E i \in 0 .. 7 : cur[i] # new[i]
            dB == \E i \in 8 .. 15 : cur[i] # new[i]
            w == pure.out
        IN  /\ Len(w) <= 1
            /\ (~dA /\ ~dB) => w = << >>
            /\ (dA /\ ~dB) =>
                 /\ Len(w) = 1 /\ Len(w[1]) = 2 /\ w[1][1] = 2 * K
                 /\ C6_PacksBank(w[1][2], new, 0)
            /\ (~dA /\ dB) =>
                 /\ Len(w) = 1 /\ Len(w[1]) = 2 /\ w[1][1] = 2 * K + 1
                 /\ C6_PacksBank(w[1][2], new, 1)
            /\ (dA /\ dB) =>
                 /\ Len(w) = 1 /\ Len(w[1]) = 3 /\ w[1][1] = 2 * K
                 /\ C6_PacksBank(w[1][2], new, 0)
                 /\ C6_PacksBank(w[1][3], new, 1)
\* a both-banks write with the high bit of each bank changed has been built
C6_Witness ==
    /\ pure.fn \in {"write_registers", "write_operation"} /\ pure.step = 1
    /\ pure.arg.current[7] # pure.arg.new[7] /\ pure.arg.new[15] /\ ~pure.arg.current[15]
    /\ Len(pure.out) = 1 /\ Len(pure.out[1]) = 3

-----------------------------------------------------------------------------
(* peripheral/src/mcp23017.rs: the emulated device.  Its state is the      *)
(* record per; every method is an operator from record to record.          *)

\* From<bool> for IoDirection / PinState / InterruptControl / InterruptMode
\* and back (common/src/lib.rs, embedded_hal::digital::PinState)
IoDirection_from(b) == IF b THEN "Input" ELSE "Output"
PinState_from(b) == IF b THEN "High" ELSE "Low"
InterruptControl_from(b) ==
    IF b THEN "CompareWithConfiguredValue" ELSE "CompareWithPreviousValue"
InterruptMode_from(b) == IF b THEN "OpenDrain" ELSE "ActiveDriver"
bool_from(x) == x \in {"Input", "High", "CompareWithConfiguredValue", "OpenDrain"}
\* !PinState
Not(state) == IF state = "High" THEN "Low" ELSE "High"

\* F at the value of x.  (Inside ENABLED, TLC evaluates an operator argument
\* anew at each use; a bound variable is evaluated once.)
With(x, F(_)) == CHOOSE r \in {F(v) : v \in {x}} : TRUE

\* update_pin: gpio_pins[pin_index].configure(direction, pull-up, latch)
update_pin(p, pin_index) ==
    [p EXCEPT !.gpio_pins[pin_index] =
        [@ EXCEPT !.io_direction = p.io_directions[pin_index],
                  !.pull_up_enabled = p.pull_up_enabled[pin_index],
                  !.level = p.output_latches[pin_index]]]

\* update_pin for every pin of a set (the order does not matter: each call
\* touches its own adapter)
RECURSIVE update_pins(_, _)
update_pins(p, todo) ==
    IF todo = {} THEN p
    ELSE LET i == CHOOSE x \in todo : TRUE
         IN  With(update_pin(p, i), LAMBDA q : update_pins(q, todo \ {i}))
update_all_pins(p) == update_pins(p, Pins)

\* (a slip: each output follows the flags of its own bank only)
update_interrupts_NoMirror(p) ==
    [p EXCEPT !.interrupt_pins =
        [k \in 1 .. AB_COUNT |->
            [mode |-> p.int_mode,
             level |-> IF \E i \in range(AB_VARIANTS[k]) : p.int_flags[i]
                         THEN p.int_active_state
                         ELSE Not(p.int_active_state)]]]
\* update_interrupts
update_interrupts(p) ==
    LET flagged == [k \in 1 .. AB_COUNT |->
                      \E i \in range(AB_VARIANTS[k]) : p.int_flags[i]]
        enable_interrupts ==
            IF p.mirror_interrupts /\ (\E k \in 1 .. AB_COUNT : flagged[k])
              THEN [k \in 1 .. AB_COUNT |-> TRUE]
              ELSE flagged
    IN  [p EXCEPT !.interrupt_pins =
            [k \in 1 .. AB_COUNT |->
                [mode |-> p.int_mode,
                 level |-> IF enable_interrupts[k]
                             THEN p.int_active_state
                             ELSE Not(p.int_active_state)]]]

\* The fields reset() assigns (the adapters, the interrupt outputs and the
\* reset observer are kept)
PerDefaults(p) ==
    [p EXCEPT !.bank_mode = FALSE,
              !.mirror_interrupts = FALSE,
              !.sequential_mode = FALSE,
              !.int_mode = "ActiveDriver",
              !.int_active_state = "Low",
              !.selected_address = 0,
              !.io_directions = [i \in Pins |-> "Input"],
              !.pull_up_enabled = [i \in Pins |-> FALSE],
              !.output_latches = [i \in Pins |-> "Low"],
              !.gpio_inverted = [i \in Pins |-> FALSE],
              !.int_enabled = [i \in Pins |-> FALSE],
              !.int_compare = [i \in Pins |-> "Low"],
              !.interrupt_control = [i \in Pins |-> "CompareWithPreviousValue"],
              !.int_flags = [i \in Pins |-> FALSE],
              !.int_captured_value = [i \in Pins |-> "Low"],
              !.known_input_states = [i \in Pins |-> "Low"]]

\* (a slip: the adapters are left as they were configured)
reset_KeepsPins(p) == update_interrupts(PerDefaults(p))
\* Mcp23017::reset
reset(p) == update_interrupts(update_all_pins(PerDefaults(p)))

\* Mcp23017::new: the adapters as handed in (not configured yet; ext is the
\* level the outside world puts on the pin), then the defaults applied.
\* overflow_checks is the build profile: u8 overflow panics or wraps.
new(ext, overflow_checks) ==
    reset([gpio_pins |-> [i \in Pins |->
                            [io_direction |-> "Unconfigured", pull_up_enabled |-> FALSE,
                             level |-> "Low", ext |-> ext[i]]],
           interrupt_pins |-> [k \in 1 .. AB_COUNT |->
                                 [mode |-> "Unconfigured", level |-> "Low"]],
           reset_low_since |-> None,
           panicked |-> FALSE, overflow_checks |-> overflow_checks,
           bank_mode |-> FALSE, mirror_interrupts |-> FALSE, sequential_mode |-> FALSE,
           int_mode |-> "ActiveDriver", int_active_state |-> "Low",
           selected_address |-> 0,
           io_directions |-> << >>, pull_up_enabled |-> << >>, output_latches |-> << >>,
           gpio_inverted |-> << >>, int_enabled |-> << >>, int_compare |-> << >>,
           interrupt_control |-> << >>, int_flags |-> << >>,
           int_captured_value |-> << >>, known_input_states |-> << >>])

\* advance_address_mode and the free function advance_address (u8)
\* (a slip: no toggle between the banks when SEQOP = 0 and BANK = 0)
advance_address_mode_NoToggle(p) ==
    IF p.sequential_mode THEN "Cycle" ELSE "Fixed"
advance_address_mode(p) ==
    IF p.sequential_mode THEN "Cycle"
    ELSE IF ~p.bank_mode THEN "Toggle" ELSE "Fixed"
\* (a slip: the wrap one address late)
advance_address_WrapsLate(current_address, mode) ==
    CASE mode = "Fixed" -> current_address
      [] mode = "Toggle" ->
           IF current_address % 2 = 0 THEN current_address + 1 ELSE current_address - 1
      [] mode = "Cycle" ->
           IF current_address = RegisterType_COUNT * 2 THEN 0 ELSE current_address + 1
advance_address(current_address, mode) ==
    CASE mode = "Fixed" -> current_address
      [] mode = "Toggle" ->
           IF current_address % 2 = 0 THEN current_address + 1 ELSE current_address - 1
      [] mode = "Cycle" ->
           IF current_address = RegisterType_COUNT * 2 - 1 THEN 0 ELSE current_address + 1

\* Mcp23017::advance_address; an overflowing u8 addition panics with
\* overflow checks and wraps without them
advance_selected(p) ==
    LET next == advance_address(p.selected_address, advance_address_mode(p))
    IN  IF next \in Bytes THEN [p EXCEPT !.selected_address = next]
        ELSE IF p.overflow_checks THEN [p EXCEPT !.panicked = TRUE]
        ELSE [p EXCEPT !.selected_address = next % 256]

\* the per-pin array of a bank taken from the bits of a byte:
\* for (index, x) in array[register.ab.range()].iter_mut().enumerate()
\*     { *x = ((value & (1 << index)) != 0).into() }
\* (converted: the eight bits of the byte after .into())
WithBank(array, ab, converted) ==
    [i \in Pins |-> IF i \in range(ab) THEN converted[i - starting_index(ab)] ELSE array[i]]
Changed(old, now) == {i \in Pins : old[i] # now[i]}

\* Mcp23017::write_register
write_register(p, register, value) ==
    CASE register.type = IODIR ->
           LET n == WithBank(p.io_directions, register.ab, [k \in 0 .. 7 |-> IoDirection_from(BitOf(value, k))])
           IN  update_pins([p EXCEPT !.io_directions = n], Changed(p.io_directions, n))
      [] register.type = GPPU ->
           LET n == WithBank(p.pull_up_enabled, register.ab, [k \in 0 .. 7 |-> BitOf(value, k)])
           IN  update_pins([p EXCEPT !.pull_up_enabled = n], Changed(p.pull_up_enabled, n))
      [] register.type \in {OLAT, GPIO} ->
           LET n == WithBank(p.output_latches, register.ab, [k \in 0 .. 7 |-> PinState_from(BitOf(value, k))])
           IN  update_pins([p EXCEPT !.output_latches = n], Changed(p.output_latches, n))
      [] register.type = IPOL ->
           [p EXCEPT !.gpio_inverted = WithBank(p.gpio_inverted, register.ab, [k \in 0 .. 7 |-> BitOf(value, k)])]
      [] register.type = GPINTEN ->
           LET n == WithBank(p.int_enabled, register.ab, [k \in 0 .. 7 |-> BitOf(value, k)])
           IN  update_pins([p EXCEPT !.int_enabled = n], Changed(p.int_enabled, n))
      [] register.type = DEFVAL ->
           [p EXCEPT !.int_compare = WithBank(p.int_compare, register.ab, [k \in 0 .. 7 |-> PinState_from(BitOf(value, k))])]
      [] register.type = INTCON ->
           [p EXCEPT !.interrupt_control =
                WithBank(p.interrupt_control, register.ab, [k \in 0 .. 7 |-> InterruptControl_from(BitOf(value, k))])]
      [] register.type = IOCON ->
           update_interrupts(
             [p EXCEPT !.bank_mode = BitOf(value, 7),
                       !.mirror_interrupts = BitOf(value, 6),
                       !.sequential_mode = BitOf(value, 5),
                       !.int_mode = InterruptMode_from(BitOf(value, 2)),
                       !.int_active_state = PinState_from(BitOf(value, 1))])
      [] OTHER -> [p EXCEPT !.panicked = TRUE]      \* todo!("write {register_type:?}")

\* value |= u8::from(bit) << i over the pins of a bank
BankValue(bits, ab) == from_bits_le([i \in 0 .. 7 |-> bits[starting_index(ab) + i]])

\* the level a GPIO read takes for pin i: the latch of an output, the
\* adapter's level() of an input
GpioLevel(p, i) ==
    IF p.io_directions[i] = "Output" THEN p.output_latches[i] ELSE p.gpio_pins[i].ext

\* Mcp23017::read_register: Some(byte), or None where it panics (todo!)
read_register(p, register) ==
    CASE register.type = IODIR -> Some(BankValue([i \in Pins |-> bool_from(p.io_directions[i])], register.ab))
      [] register.type = GPPU -> Some(BankValue(p.pull_up_enabled, register.ab))
      [] register.type = GPIO ->
           Some(BankValue([i \in Pins |-> bool_from(GpioLevel(p, i))], register.ab))
      [] register.type = INTCAP ->
           Some(BankValue([i \in Pins |-> bool_from(p.int_captured_value[i])], register.ab))
      [] register.type = INTF -> Some(BankValue(p.int_flags, register.ab))
      [] OTHER -> None                              \* todo!("read {register_type:?}")

\* (a slip: only a GPIO read clears the flags)
read_side_effects_GpioOnly(p, register) ==
    CASE register.type = GPIO ->
           update_interrupts(
             [p EXCEPT !.known_input_states =
                          [i \in Pins |-> IF i \in range(register.ab)
                                            THEN GpioLevel(p, i) ELSE @[i]],
                       !.int_flags = [i \in Pins |-> IF i \in range(register.ab)
                                                       THEN FALSE ELSE @[i]]])
      [] OTHER -> p
\* Mcp23017::read_side_effects
read_side_effects(p, register) ==
    CASE register.type = GPIO ->
           update_interrupts(
             [p EXCEPT !.known_input_states =
                          [i \in Pins |-> IF i \in range(register.ab)
                                            THEN GpioLevel(p, i) ELSE @[i]],
                       !.int_flags = [i \in Pins |-> IF i \in range(register.ab)
                                                       THEN FALSE ELSE @[i]]])
      [] register.type = INTCAP ->
           update_interrupts(
             [p EXCEPT !.int_flags = [i \in Pins |-> IF i \in range(register.ab)
                                                       THEN FALSE ELSE @[i]]])
      [] OTHER -> p

\* Mcp23017::process_write_transaction: the loop over bytes[1..]
RECURSIVE WriteBytes(_, _, _)
WriteBytes(p, bytes, k) ==
    IF k > Len(bytes) \/ p.panicked THEN p
    ELSE LET register == from_address(p.selected_address, p.bank_mode)
         IN  With(IF register # None THEN write_register(p, register.v, bytes[k]) ELSE p,
                  LAMBDA written :
                      With(IF written.panicked THEN written ELSE advance_selected(written),
                           LAMBDA q : WriteBytes(q, bytes, k + 1)))
process_write_transaction(p, bytes) ==
    IF Len(bytes) > 0
      THEN WriteBytes([p EXCEPT !.selected_address = bytes[1]], bytes, 2)
      ELSE p

\* Mcp23017::prepare_read_buffer: the buffer with the bytes filled in, or
\* None where read_register panics; a byte whose address decodes to no
\* register is left as the caller passed it
RECURSIVE ReadBytes(_, _, _, _)
ReadBytes(p, buffer, k, addr) ==
    IF k > Len(buffer) THEN Some(buffer)
    ELSE LET register == from_address(addr, p.bank_mode)
             byte == IF register # None THEN read_register(p, register.v)
                     ELSE Some(buffer[k])
             next == advance_address(addr, advance_address_mode(p))
         IN  IF byte = None \/ (next \notin Bytes /\ p.overflow_checks) THEN None
             ELSE ReadBytes(p, [buffer EXCEPT ![k] = byte.v], k + 1, next % 256)
prepare_read_buffer(p, buffer) == ReadBytes(p, buffer, 1, p.selected_address)

\* (a slip: the side effects of the register after the last one confirmed
\* are applied too)
RECURSIVE confirm_bytes_read_OneMore(_, _)
confirm_bytes_read_OneMore(p, bytes_read) ==
    LET register == from_address(p.selected_address, p.bank_mode)
        done == IF register # None THEN read_side_effects(p, register.v) ELSE p
    IN  IF p.panicked THEN p
        ELSE IF bytes_read = 0 THEN [done EXCEPT !.selected_address = p.selected_address]
        ELSE confirm_bytes_read_OneMore(advance_selected(done), bytes_read - 1)
\* Mcp23017::confirm_bytes_read
RECURSIVE confirm_bytes_read(_, _)
confirm_bytes_read(p, bytes_read) ==
    IF bytes_read = 0 \/ p.panicked THEN p
    ELSE LET register == from_address(p.selected_address, p.bank_mode)
         IN  With(IF register # None THEN read_side_effects(p, register.v) ELSE p,
                  LAMBDA done :
                      With(advance_selected(done),
                           LAMBDA q : confirm_bytes_read(q, bytes_read - 1)))

-----------------------------------------------------------------------------
(* A register written and read back over the bus, the way the controller   *)
(* addresses the device (BANK=0 addresses): IODIR of the bank is set up,   *)
(* the byte is written to the register, the pointer is set to the register *)
(* again and one byte is read.                                             *)

\* the levels the outside world holds the pins at: odd pins High
ExtLevels == [i \in Pins |-> IF i % 2 = 1 THEN "High" ELSE "Low"]

InitWriteRead ==
    /\ pure \in [fn : {"write_read"},
                 arg : [register : Registers, byte : Bytes, iodir : {255, 15}],
                 out : {0}, step : {0}]
    /\ per = new(ExtLevels, TRUE)
    /\ CtlIdle

WriteReadStep(k) == pure.fn = "write_read" /\ pure.step = k /\ ~per.panicked

\* process_write_transaction(&[IODIR of the bank, iodir])
WrConfigure ==
    /\ WriteReadStep(0)
    /\ per' = process_write_transaction(per,
                <<address_of([type |-> IODIR, ab |-> pure.arg.register.ab], FALSE),
                  pure.arg.iodir>>)
    /\ pure' = [pure EXCEPT !.step = 1]
    /\ UNCHANGED ctl

\* process_write_transaction(&[register, byte])
WrWrite ==
    /\ WriteReadStep(1)
    /\ per' = process_write_transaction(per,
                <<address_of(pure.arg.register, FALSE), pure.arg.byte>>)
    /\ pure' = [pure EXCEPT !.step = 2]
    /\ UNCHANGED ctl

\* process_write_transaction(&[register]): the pointer write of a write_read
WrSelect ==
    /\ WriteReadStep(2)
    /\ per' = process_write_transaction(per, <<address_of(pure.arg.register, FALSE)>>)
    /\ pure' = [pure EXCEPT !.step = 3]
    /\ UNCHANGED ctl

\* prepare_read_buffer(&mut [0])
WrRead ==
    /\ WriteReadStep(3)
    /\ LET buffer == prepare_read_buffer(per, <<0>>)
       IN  /\ pure' = [pure EXCEPT !.out = buffer, !.step = 4]
           /\ per' = IF buffer = None THEN [per EXCEPT !.panicked = TRUE] ELSE per
    /\ UNCHANGED ctl

NextWriteRead == WrConfigure \/ WrWrite \/ WrSelect \/ WrRead
SpecWriteRead == InitWriteRead /\ [][NextWriteRead]_vars

\* C9: for every register kind K other than INTF and INTCAP, every bank and
\* every byte b, writing b to K and then reading one byte of K yields b (for
\* IOCON on the bits BANK, MIRROR, SEQOP, ODR, INTPOL; for GPIO and OLAT on
\* the pins configured as outputs).
C9_ReadBackBits(K, iodir) ==
    CASE K = IOCON -> {7, 6, 5, 2, 1}
      [] K \in {GPIO, OLAT} -> {i \in 0 .. 7 : (iodir \div (2 ^ i)) % 2 = 0}
      [] OTHER -> 0 .. 7
C9_WriteThenRead ==
    (/\ pure.fn = "write_read"
     /\ pure.arg.register.type \notin {INTF, INTCAP}
     /\ \/ pure.step = 4
        \/ per.panicked) =>
        /\ ~per.panicked
        /\ pure.out # None
        /\ \A i \in C9_ReadBackBits(pure.arg.register.type, pure.arg.iodir) :
              (pure.out.v[1] \div (2 ^ i)) % 2 = (pure.arg.byte \div (2 ^ i)) % 2

-----------------------------------------------------------------------------
(* controller: the slots (Request behind a lock, with its request and      *)
(* response signals) and the pin handles of controller/src/pin.rs.         *)
(* Handles act on NHandles of the 16 pins, spread over the two banks.      *)

NHandles == 2
ActivePin(k) == (k % 2) * N_GPIO_PINS_PER_SET + (k \div 2)
ActivePins == {ActivePin(k) : k \in 0 .. (NHandles - 1)}
\* what the environment does is counted and capped: calls on the handles and
\* edges of the interrupt line (bus.events)
MaxEvents == 3

\* enum Op and enum InputOp
OpOutput(latch) == [k |-> "Output", latch |-> latch]
OpInput(pull_up_enabled, op) == [k |-> "Input", pull_up_enabled |-> pull_up_enabled, op |-> op]
OpWatch(pull_up_enabled, last_known_value) ==
    [k |-> "Watch", pull_up_enabled |-> pull_up_enabled,
     last_known_value |-> last_known_value]
Read(response) == [k |-> "Read", response |-> response]
WaitForState(state) == [k |-> "WaitForState", state |-> state]

\* the slots as Mcp23017::run creates them
PinsInit ==
    [i \in Pins |-> [op |-> OpInput(FALSE, None), state |-> "Done",
                     request_signal |-> FALSE, response_signal |-> FALSE]]

\* The handles run only while the runner is suspended: at an await that is
\* pending, or ended.
RunnerSuspended == run.yielded \/ run.pc \in {"terminated", "panicked"}

\* A handle: its typestate (Dropped once a consuming call was cancelled), the
\* call it is suspended in, and what the last completed update_op saw in the
\* slot when it returned.
HndInit == [i \in Pins |-> [mode |-> "Input", pc |-> "idle", call |-> None, ret |-> None]]

\* a call is made on an idle handle, while the runner is suspended
MayCall(i) ==
    /\ RunnerSuspended
    /\ hnd[i].pc = "idle" /\ hnd[i].mode # "Dropped"
    /\ bus.events < MaxEvents
    /\ bus' = [bus EXCEPT !.events = @ + 1]

\* The client the model runs: the handles of bank A are driven as outputs and
\* plain inputs, those of bank B as watched and polled inputs.
\* The calls a handle can make in its mode: the op update_op is given, the
\* mode of the handle returned, whether the call takes the handle by value.
PinCalls(i) ==
    IF from_index(i) # A THEN {} ELSE
    {[fn |-> "into_output", new_op |-> OpOutput(v), mode |-> "Output", by_value |-> TRUE]
        : v \in {"Low", "High"}}
    \cup {[fn |-> "into_input", new_op |-> OpInput(pu, None), mode |-> "Input",
           by_value |-> TRUE] : pu \in BOOLEAN}
    \cup (IF hnd[i].mode = "Output"
            THEN {[fn |-> "set_state", new_op |-> OpOutput(v), mode |-> "Output",
                   by_value |-> FALSE] : v \in {"Low", "High"}}
            ELSE {})

\* Pin<Input>::state and wait_for_state: publish Input{Read} / WaitForState(s)
\* through update_op, keeping the pull-up of the slot
InputCalls(i) ==
    IF from_index(i) = B /\ hnd[i].mode = "Input" /\ pins[i].op.k = "Input"
      THEN {[fn |-> "state", new_op |-> OpInput(pins[i].op.pull_up_enabled, Some(Read(None))),
             mode |-> "Input", by_value |-> FALSE]}
           \cup {[fn |-> "wait_for_state",
                  new_op |-> OpInput(pins[i].op.pull_up_enabled, Some(WaitForState(st))),
                  mode |-> "Input", by_value |-> FALSE] : st \in {"Low", "High"}}
      ELSE {}

\* what a returning call leaves in the handle
Returned(h, c, slot) ==
    [h EXCEPT !.mode = c.mode, !.pc = "idle", !.call = None,
              !.ret = Some([fn |-> c.fn, state |-> slot.state,
                            holds_new_op |-> slot.op = c.new_op])]

\* Pin::update_op up to its first suspension: return at once when the slot
\* holds an equal op, else install (new_op, Requested), signal the runner and
\* wait for the response signal (the state just written is not Done)
Publish(i, c) ==
    /\ MayCall(i)
    /\ IF pins[i].op = c.new_op
         THEN /\ hnd' = [hnd EXCEPT ![i] = Returned(@, c, pins[i])]
              /\ UNCHANGED pins
         ELSE /\ pins' = [pins EXCEPT ![i].op = c.new_op, ![i].state = "Requested",
                                      ![i].request_signal = TRUE]
              /\ hnd' = [hnd EXCEPT ![i].pc = "waiting", ![i].call = Some(c), ![i].ret = None]
UpdateOp(i, c) == Publish(i, c) /\ UNCHANGED <<pure, per, run>>

CallUpdateOp == \E i \in ActivePins : \E c \in PinCalls(i) : UpdateOp(i, c)
CallInputOp == \E i \in ActivePins : \E c \in InputCalls(i) : UpdateOp(i, c)

\* Pin::into_watch up to its first suspension
CallIntoWatch ==
    \E i \in ActivePins : \E pu \in BOOLEAN :
        LET new_op == OpWatch(pu, None)
            c == [fn |-> "into_watch", new_op |-> new_op, mode |-> "Watch", by_value |-> TRUE]
        IN  /\ MayCall(i) /\ from_index(i) = B
            /\ pins' = IF pins[i].op # new_op
                         THEN [pins EXCEPT ![i].op = new_op, ![i].state = "Requested",
                                           ![i].request_signal = TRUE]
                         ELSE pins
            /\ hnd' = [hnd EXCEPT ![i].pc = "waiting", ![i].call = Some(c), ![i].ret = None]
            /\ UNCHANGED <<pure, per, run>>

\* the loop of update_op / into_watch after response_signal.wait() returned:
\* the signal is taken; update_op breaks on state Done, into_watch on a
\* populated last_known_value; otherwise the handle waits again
ResponseWakeOf(i) ==
    LET c == hnd[i].call.v
        done == IF c.fn = "into_watch"
                  THEN pins[i].op.k = "Watch" /\ pins[i].op.last_known_value # None
                  ELSE pins[i].state = "Done"
    IN  /\ RunnerSuspended
        /\ hnd[i].pc = "waiting" /\ pins[i].response_signal
        /\ pins' = [pins EXCEPT ![i].response_signal = FALSE]
        /\ hnd' = IF done THEN [hnd EXCEPT ![i] = Returned(@, c, pins[i])] ELSE hnd
        /\ UNCHANGED <<pure, per, run, bus>>

ResponseWake == \E i \in ActivePins : ResponseWakeOf(i)

\* the future of a suspended call is dropped: the slot is left as it is; a
\* call that took the handle by value takes the handle with it
DropCall ==
    \E i \in ActivePins :
        /\ RunnerSuspended
        /\ hnd[i].pc = "waiting"
        /\ hnd' = [hnd EXCEPT ![i].pc = "idle", ![i].call = None,
                              ![i].mode = IF hnd[i].call.v.by_value THEN "Dropped" ELSE @]
        /\ UNCHANGED <<pure, per, pins, run, bus>>

-----------------------------------------------------------------------------
(* controller: the bus as the runner drives it, and the runner state       *)

\* bytes the device answers a read with
EnvBytes == {0, 1}

\* reset: the levels driven on the reset output; first: the first bus
\* transaction; iter: the transactions of the current loop iteration (kind
\* of transfer and register address); written: per register, the byte last
\* written to the device (datasheet reset values to begin with); int_low:
\* the level of the interrupt input; events: see MaxEvents; faulty: whether
\* the bus and the reset output may return errors; log: every transaction
\* so far, where a whole run is followed (None: not kept)
BusInit ==
    [reset |-> << >>, first |-> None, iter |-> << >>,
     written |-> [r \in Registers |-> IF r.type = IODIR THEN 255 ELSE 0],
     int_low |-> FALSE, events |-> 0, faulty |-> TRUE, log |-> None]

\* the results an I/O operation of the runner can have
Oks == IF bus.faulty THEN BOOLEAN ELSE {TRUE}

\* the device side of a write [addr, bytes...] under the IOCON the runner
\* programs (BANK=0, SEQOP=0: the pointer toggles between the two banks)
RECURSIVE Written(_, _, _, _)
Written(w, buffer, k, addr) ==
    IF k > Len(buffer) THEN w
    ELSE LET r == from_address(addr, FALSE)
         IN  Written(IF r # None THEN [w EXCEPT ![r.v] = buffer[k]] ELSE w,
                     buffer, k + 1, advance_address(addr, "Toggle"))

\* a transaction that succeeded
Emit(b, tx) ==
    [b EXCEPT !.first = IF @ = None THEN Some(tx) ELSE @,
              !.iter = Append(@, [op |-> tx.op, addr |-> tx.buffer[1], tx |-> tx]),
              !.written = IF tx.op = "write"
                            THEN Written(@, tx.buffer, 2, tx.buffer[1]) ELSE @,
              !.log = IF @ = None THEN @ ELSE Some(Append(@.v, tx))]

\* PinRegisters::default()
PinRegisters_default ==
    [direction |-> "Input", pull_up_enabled |-> FALSE, latch |-> "Low",
     int_enabled |-> FALSE, int_control |-> "CompareWithPreviousValue",
     int_compare |-> "Low"]

\* the locals of one loop iteration (new: the new_* arrays, one record per
\* pin); they are dead between iterations
LocInit ==
    [new |-> << >>, new_int_requested |-> << >>, read_gpios |-> << >>,
     captured_interrupts |-> [i \in Pins |-> FALSE],
     previous_int_enabled |-> << >>,
     read_gpio_states |-> [i \in Pins |-> None], do_operation |-> FALSE]

\* impl: "lib" is Mcp23017::run of controller/src/lib.rs, "runner" is run of
\* controller/src/runner.rs.  yielded: the runner is suspended at an await.
RunInit(impl) ==
    [impl |-> impl, pc |-> IF impl = "lib" THEN "reset_low" ELSE "iocon",
     yielded |-> TRUE, err |-> None,
     registers |-> [i \in Pins |-> PinRegisters_default],
     requests |-> << >>, loc |-> LocInit,
     pending_interrupt |-> FALSE, watcher |-> "wait_low"]

\* (a slip: the error is noted and the loop goes on)
Failed_GoesOn(r, error) == [r EXCEPT !.err = Some(error)]
\* `?` on an Err: the runner future ends with the error
Failed(r, error) ==
    [r EXCEPT !.pc = "terminated", !.err = Some(error), !.yielded = TRUE,
              !.loc = LocInit, !.requests = << >>]

\* (a slip: the IODIR bit of an output taken as 1)
CacheBits_OutputIsOne(registers, type) ==
    [i \in Pins |->
        CASE type = IODIR -> registers[i].direction = "Output"
          [] type = GPPU -> registers[i].pull_up_enabled
          [] type = OLAT -> bool_from(registers[i].latch)
          [] type = DEFVAL -> bool_from(registers[i].int_compare)
          [] type = INTCON -> bool_from(registers[i].int_control)
          [] type = GPINTEN -> registers[i].int_enabled]
\* registers.map(|registers| registers.<field>) as the bits written for a kind
CacheBits(registers, type) ==
    [i \in Pins |->
        CASE type = IODIR -> bool_from(registers[i].direction)
          [] type = GPPU -> registers[i].pull_up_enabled
          [] type = OLAT -> bool_from(registers[i].latch)
          [] type = DEFVAL -> bool_from(registers[i].int_compare)
          [] type = INTCON -> bool_from(registers[i].int_control)
          [] type = GPINTEN -> registers[i].int_enabled]

InitCtl ==
    /\ pure = PureIdle /\ per = PerIdle
    /\ pins = PinsInit /\ hnd = HndInit /\ bus = BusInit
    /\ \E impl \in {"lib", "runner"} : run = RunInit(impl)

\* buffers of n bytes the device may answer with
ReadBuffers(n) == [1 .. n -> EnvBytes]

\* Where the emulated device of peripheral/src is on the bus (per is a
\* Mcp23017 then), a read of n bytes after the pointer write <<addr>> is
\* answered by prepare_read_buffer; elsewhere the device is the outside world
Answers(addr, n) ==
    IF per = PerIdle THEN ReadBuffers(n)
    ELSE {prepare_read_buffer(process_write_transaction(per, <<addr>>),
                              [k \in 1 .. n |-> 0]).v}

\* the emulated device after the operations of a transaction: a write is
\* process_write_transaction, a read of n bytes is confirm_bytes_read(n)
RECURSIVE Operated(_, _, _)
Operated(p, operations, k) ==
    IF k > Len(operations) THEN p
    ELSE CHOOSE r \in {Operated(q, operations, k + 1) :
                         q \in {IF operations[k].k = "Write"
                                  THEN process_write_transaction(p, operations[k].bytes)
                                  ELSE confirm_bytes_read(p, operations[k].len)}} : TRUE
\* the i2c::Operation list of a transaction of the runner
Operations(tx) ==
    CASE tx.op = "write" -> <<[k |-> "Write", bytes |-> tx.buffer]>>
      [] tx.op = "write_read" -> <<[k |-> "Write", bytes |-> tx.buffer],
                                   [k |-> "Read", len |-> tx.read]>>
      [] tx.op = "transaction" -> tx.operations
\* the device after the step: it has served the transaction the step put
\* on the bus, if any
Served(b) ==
    IF per # PerIdle /\ Len(b.iter) > Len(bus.iter)
      THEN Operated(per, Operations(b.iter[Len(b.iter)].tx), 1)
      ELSE per
\* the level of the interrupt input: INTA of the emulated device (open
\* drain, active low), or what the outside world drives
IntLow ==
    IF per = PerIdle THEN bus.int_low ELSE per.interrupt_pins[1].level = "Low"

\* the interrupt line changes level (the device asserts or releases it)
InterruptLine ==
    /\ run.pc \notin {"terminated", "panicked"} /\ bus.events < MaxEvents
    /\ bus' = [bus EXCEPT !.int_low = ~@, !.events = @ + 1]
    /\ UNCHANGED <<pure, per, pins, run, hnd>>

\* lib.rs 174-179: reset low, delay 1 us, reset high
LibResetPulse ==
    /\ run.impl = "lib" /\ run.pc \in {"reset_low", "delay", "reset_high"}
    /\ \E ok \in Oks :
         IF run.pc = "delay"
           THEN run' = [run EXCEPT !.pc = "reset_high"] /\ UNCHANGED bus
           ELSE IF ok
             THEN /\ bus' = [bus EXCEPT !.reset =
                               Append(@, IF run.pc = "reset_low" THEN "Low" ELSE "High")]
                  /\ run' = [run EXCEPT !.pc = IF run.pc = "reset_low"
                                                 THEN "delay" ELSE "iocon"]
             ELSE run' = Failed(run, "ResetPin") /\ UNCHANGED bus
    /\ UNCHANGED <<pure, per, pins, hnd>>

\* lib.rs 181-197 and runner.rs 33-50: the IOCON write
ConfigureIocon ==
    /\ run.pc = "iocon"
    /\ \E ok \in Oks :
         IF ok
           THEN /\ bus' = Emit(bus, [op |-> "write",
                                    buffer |-> <<address_of([type |-> IOCON, ab |-> A], FALSE),
                                                 68>>])
                /\ run' = [run EXCEPT !.pc = IF run.impl = "lib" THEN "top" ELSE "idle"]
           ELSE run' = Failed(run, "I2c") /\ UNCHANGED bus
    /\ per' = Served(bus')
    /\ UNCHANGED <<pure, pins, hnd>>

-----------------------------------------------------------------------------
(* controller/src/lib.rs: the loop of Mcp23017::run.  The slots are Watch  *)
(* cells there: request_signal stands for "changed" of the runner's        *)
(* receiver of the cell and response_signal for that of the handle's, so a *)
(* send_if_modified that returns true raises both.                         *)

\* the arms of the snapshot that are todo!()
LibTodo(op) ==
    \/ op.k = "Watch"
    \/ op.k = "Input" /\ op.op # None /\ op.op.v.k \notin {"Read", "WaitForState"}

\* the new_* values of one pin whose request is Requested
LibIntended(reg, op) ==
    CASE op.k = "Output" -> [reg EXCEPT !.direction = "Output", !.latch = op.latch]
      [] op.k = "Input" /\ op.op # None /\ op.op.v.k = "WaitForState" ->
            [reg EXCEPT !.direction = "Input", !.pull_up_enabled = op.pull_up_enabled,
                        !.int_compare = Not(op.op.v.state),
                        !.int_control = "CompareWithConfiguredValue",
                        !.int_enabled = TRUE]
      [] op.k = "Input" ->
            [reg EXCEPT !.direction = "Input", !.pull_up_enabled = op.pull_up_enabled,
                        !.int_enabled = FALSE]
      [] OTHER -> reg

IsInputOp(op, k) == op.k = "Input" /\ op.op # None /\ op.op.v.k = k

\* lib.rs 229-319: the locals and the snapshot of the slots
LibSnapshot ==
    /\ run.impl = "lib" /\ run.pc = "top"
    /\ LET requested == {i \in Pins : pins[i].state = "Requested"}
           todo == {i \in requested : LibTodo(pins[i].op)}
           accepted == {i \in requested : \A j \in todo : i < j}
       IN  /\ pins' = [i \in Pins |->
                         IF i \in accepted
                           THEN [pins[i] EXCEPT !.state = "ProcessingRequest",
                                                !.request_signal = TRUE,
                                                !.response_signal = TRUE]
                           ELSE pins[i]]
           /\ run' = IF todo # {}
                       THEN [run EXCEPT !.pc = "panicked", !.yielded = TRUE]
                       ELSE [run EXCEPT
                               !.pc = "iodir", !.yielded = FALSE,
                               !.requests = [i \in Pins |-> [op |-> pins[i].op,
                                                             state |-> pins[i].state]],
                               !.loc = [LocInit EXCEPT
                                  !.new = [i \in Pins |->
                                             IF i \in requested
                                               THEN LibIntended(run.registers[i], pins[i].op)
                                               ELSE run.registers[i]],
                                  !.new_int_requested = [i \in Pins |->
                                        i \in requested /\ IsInputOp(pins[i].op, "WaitForState")],
                                  !.read_gpios = [i \in Pins |->
                                        i \in requested /\ IsInputOp(pins[i].op, "Read")]]]
    /\ bus' = [bus EXCEPT !.iter = << >>]
    /\ UNCHANGED <<pure, per, hnd>>

\* (a slip: the last block writes DEFVAL once more instead of GPINTEN)
LibWrites_NoGpinten ==
    {[pc |-> "iodir", type |-> IODIR, next |-> "gppu"],
     [pc |-> "gppu", type |-> GPPU, next |-> "olat"],
     [pc |-> "olat", type |-> OLAT, next |-> "defval"],
     [pc |-> "defval", type |-> DEFVAL, next |-> "intcon"],
     [pc |-> "intcon", type |-> INTCON, next |-> "intr"],
     [pc |-> "gpinten", type |-> DEFVAL, next |-> "gpio"]}
\* the order of the write_operation blocks of lib.rs (388-453, 531-543)
LibWrites ==
    {[pc |-> "iodir", type |-> IODIR, next |-> "gppu"],
     [pc |-> "gppu", type |-> GPPU, next |-> "olat"],
     [pc |-> "olat", type |-> OLAT, next |-> "defval"],
     [pc |-> "defval", type |-> DEFVAL, next |-> "intcon"],
     [pc |-> "intcon", type |-> INTCON, next |-> "intr"],
     [pc |-> "gpinten", type |-> GPINTEN, next |-> "gpio"]}

\* one `if let Some(operation) = write_operation(..) { .. transaction .. }`
LibWrite ==
    /\ run.impl = "lib"
    /\ \E st \in LibWrites :
         /\ run.pc = st.pc
         /\ LET operation == write_operation(st.type, CacheBits(run.registers, st.type),
                                             CacheBits(run.loc.new, st.type))
            IN  IF operation = None
                  THEN run' = [run EXCEPT !.pc = st.next] /\ UNCHANGED bus
                  ELSE \E ok \in Oks :
                         IF ok
                           THEN /\ bus' = Emit(bus, [op |-> "write", buffer |-> operation.v])
                                /\ run' = [run EXCEPT !.pc = st.next, !.yielded = TRUE,
                                                      !.loc.do_operation = TRUE]
                           ELSE run' = Failed(run, "I2c") /\ UNCHANGED bus
    /\ per' = Served(bus')
    /\ UNCHANGED <<pure, pins, hnd>>

\* (a slip: a lone byte always goes to bank A)
BankRead_ToA(read_a, buffer, ab) ==
    IF read_a /\ Len(buffer) > 1
      THEN (IF ab < Len(buffer) THEN Some(buffer[ab + 1]) ELSE None)
    ELSE IF ab = A THEN Some(buffer[1]) ELSE None
\* AB::VARIANTS[if read_a { 0..buffer.len() } else { 1..2 }].enumerate():
\* the byte of the buffer that lands in bank ab, if any
BankRead(read_a, buffer, ab) ==
    IF read_a THEN (IF ab < Len(buffer) THEN Some(buffer[ab + 1]) ELSE None)
    ELSE IF ab = B THEN Some(buffer[1]) ELSE None

\* the banks a read covers: want[ab] says whether bank ab asked for it
BankCount(want) == (IF want[A] THEN 1 ELSE 0) + (IF want[B] THEN 1 ELSE 0)

\* lib.rs 455-530: INTF and GPIO are read when an interrupt is pending
LibInterrupt ==
    /\ run.impl = "lib" /\ run.pc = "intr"
    /\ IF ~run.pending_interrupt
         THEN run' = [run EXCEPT !.pc = "gpinten"] /\ UNCHANGED bus
         ELSE LET no_interrupts_enabled == \A i \in Pins : ~run.registers[i].int_enabled
                  want == [ab \in {A, B} |->
                             (\E i \in range(ab) : run.registers[i].int_enabled)
                               \/ no_interrupts_enabled]
                  start == [type |-> INTF, ab |-> IF want[A] THEN A ELSE B]
                  gpio == [type |-> GPIO, ab |-> start.ab]
                  n == BankCount(want)
              IN  \E ok \in Oks : \E int_flag_buffer \in Answers(address_of(start, FALSE), n) :
                    IF ok
                      THEN LET captured == [i \in Pins |->
                                   LET byte == BankRead(want[A], int_flag_buffer, from_index(i))
                                   IN  byte # None /\ into_bits_le(byte.v)[i % 8]]
                               clear == {i \in Pins : captured[i] /\ ~run.loc.new_int_requested[i]}
                           IN  /\ bus' = Emit(bus, [op |-> "transaction",
                                      buffer |-> <<address_of(start, FALSE)>>,
                                      operations |->
                                        <<[k |-> "Write", bytes |-> <<address_of(start, FALSE)>>],
                                          [k |-> "Read", len |-> n],
                                          [k |-> "Write", bytes |-> <<address_of(gpio, FALSE)>>],
                                          [k |-> "Read", len |-> n]>>,
                                      answer |-> int_flag_buffer])
                               /\ run' = [run EXCEPT
                                    !.pc = "gpinten", !.yielded = TRUE,
                                    !.loc.do_operation = TRUE,
                                    !.loc.captured_interrupts = captured,
                                    !.loc.new = [i \in Pins |->
                                       IF i \in clear THEN [@[i] EXCEPT !.int_enabled = FALSE]
                                       ELSE @[i]],
                                    !.loc.read_gpios = [i \in Pins |-> @[i] \/ i \in clear]]
                      ELSE run' = Failed(run, "I2c") /\ UNCHANGED bus
    /\ per' = Served(bus')
    /\ UNCHANGED <<pure, pins, hnd>>

\* lib.rs 571-582: read_gpio_states after the read, buffer being the bytes
\* read: the whole bank of every byte is copied
GpioStates(read_a, buffer) ==
    [i \in Pins |->
        LET byte == BankRead(read_a, buffer, from_index(i))
        IN  IF byte = None THEN None
            ELSE Some(PinState_from(into_bits_le(byte.v)[i % 8]))]

\* lib.rs 544-583: the GPIO read
LibGpioRead ==
    /\ run.impl = "lib" /\ run.pc = "gpio"
    /\ LET want == [ab \in {A, B} |-> \E i \in range(ab) : run.loc.read_gpios[i]]
       IN  IF BankCount(want) = 0
             THEN run' = [run EXCEPT !.pc = "finish"] /\ UNCHANGED bus
             ELSE \E ok \in Oks : \E buffer \in Answers(address_of([type |-> GPIO,
                                         ab |-> IF want[A] THEN A ELSE B], FALSE),
                                                           BankCount(want)) :
                    IF ok
                      THEN /\ bus' = Emit(bus, [op |-> "write_read",
                                    buffer |-> <<address_of([type |-> GPIO,
                                                  ab |-> IF want[A] THEN A ELSE B], FALSE)>>,
                                    read |-> BankCount(want)])
                           /\ run' = [run EXCEPT
                                !.pc = "finish", !.yielded = TRUE,
                                !.loc.do_operation = TRUE,
                                !.loc.read_gpio_states = GpioStates(want[A], buffer)]
                      ELSE run' = Failed(run, "I2c") /\ UNCHANGED bus
    /\ per' = Served(bus')
    /\ UNCHANGED <<pure, pins, hnd>>

\* (a slip: the idle select completes at once)
LibWakeReady_AtOnce == TRUE
\* some wake source of the idle select is ready
LibWakeReady == (\E i \in Pins : pins[i].request_signal) \/ run.pending_interrupt

\* the completion closure of lib.rs 617-658 on one slot: the slot after it
\* (Done), or None where the closure returns false
LibCompleted(slot, request, loc, i) ==
    IF slot.op = request.op /\ slot.state = "ProcessingRequest"
      THEN CASE slot.op.k = "Output" -> Some([slot EXCEPT !.state = "Done"])
             [] slot.op.k = "Input" /\ slot.op.op = None -> Some([slot EXCEPT !.state = "Done"])
             [] IsInputOp(slot.op, "Read") ->
                  Some([slot EXCEPT !.op.op = Some(Read(loc.read_gpio_states[i])),
                                    !.state = "Done"])
             [] IsInputOp(slot.op, "WaitForState") /\ loc.captured_interrupts[i] ->
                  Some([slot EXCEPT !.state = "Done"])
             [] OTHER -> None
      ELSE None

\* lib.rs 585-659: the end of the iteration
LibFinish ==
    /\ run.impl = "lib" /\ run.pc = "finish"
    /\ IF run.loc.do_operation
         THEN LET unwrap_none ==
                    \E i \in Pins : /\ pins[i].op = run.requests[i].op
                                   /\ pins[i].state = "ProcessingRequest"
                                   /\ IsInputOp(pins[i].op, "Read")
                                   /\ run.loc.read_gpio_states[i] = None
              IN  IF unwrap_none
                    THEN /\ run' = [run EXCEPT !.pc = "panicked", !.yielded = TRUE]
                         /\ UNCHANGED pins
                    ELSE /\ run' = [run EXCEPT
                               !.pc = "top", !.yielded = FALSE, !.loc = LocInit,
                               !.requests = << >>, !.pending_interrupt = FALSE,
                               !.registers = [i \in Pins |->
                                  [run.loc.new[i] EXCEPT
                                     !.pull_up_enabled = run.registers[i].pull_up_enabled]]]
                         /\ pins' = [i \in Pins |->
                               LET done == LibCompleted(pins[i], run.requests[i], run.loc, i)
                               IN  IF done = None THEN pins[i]
                                   ELSE [done.v EXCEPT !.request_signal = TRUE,
                                                       !.response_signal = TRUE]]
         ELSE /\ run' = [run EXCEPT !.pc = "wait", !.loc = LocInit, !.requests = << >>,
                                    !.yielded = ~LibWakeReady]
              /\ UNCHANGED pins
    /\ UNCHANGED <<pure, per, hnd, bus>>

\* lib.rs 598-608: select(select_array(changed of every slot), pending)
LibWake ==
    /\ run.impl = "lib" /\ run.pc = "wait" /\ LibWakeReady
    /\ LET ready == {i \in Pins : pins[i].request_signal}
       IN  pins' = [i \in Pins |->
                      IF i \in ready /\ (\A j \in ready : i <= j)
                        THEN [pins[i] EXCEPT !.request_signal = FALSE] ELSE pins[i]]
    /\ run' = [run EXCEPT !.pc = "top", !.yielded = FALSE]
    /\ UNCHANGED <<pure, per, hnd, bus>>

\* (a slip: the future does not go back to wait_for_low once the loop has
\* cleared the flag)
LibWatcher_Once ==
    /\ run.impl = "lib" /\ run.yielded
    /\ run.pc \notin {"reset_low", "delay", "reset_high", "iocon", "terminated", "panicked"}
    /\ run.watcher = "wait_low" /\ IntLow
    /\ run' = [run EXCEPT !.pending_interrupt = TRUE, !.watcher = "wait_cleared"]
    /\ UNCHANGED <<pure, per, pins, hnd, bus>>
\* lib.rs 201-215: the future that turns a low interrupt input into
\* pending_interrupt, then waits until the loop has cleared it
LibWatcher ==
    /\ run.impl = "lib" /\ run.yielded
    /\ run.pc \notin {"reset_low", "delay", "reset_high", "iocon", "terminated", "panicked"}
    /\ \/ /\ run.watcher = "wait_low" /\ IntLow
          /\ run' = [run EXCEPT !.pending_interrupt = TRUE, !.watcher = "wait_cleared"]
       \/ /\ run.watcher = "wait_cleared" /\ ~run.pending_interrupt
          /\ run' = [run EXCEPT !.watcher = "wait_low"]
    /\ UNCHANGED <<pure, per, pins, hnd, bus>>

-----------------------------------------------------------------------------
(* controller/src/runner.rs: the loop of run, with read_registers of       *)
(* controller/src/register.rs                                              *)

\* read_registers: values after the call, read being the bytes the device
\* put into buffer[..read_count]
read_registers(values, read) ==
    LET read_a == \E i \in range(A) : values[i] # None
        read_b == \E i \in range(B) : values[i] # None
        buffer == [k \in 0 .. 1 |-> IF k < Len(read) THEN read[k + 1] ELSE 0]
        a_byte == IF read_a THEN Some(buffer[0]) ELSE None
        b_byte == CASE read_a /\ read_b -> Some(buffer[1])
                    [] ~read_a /\ read_b -> Some(buffer[1])
                    [] OTHER -> None
    IN  [i \in Pins |->
           LET byte == IF from_index(i) = A THEN a_byte ELSE b_byte
           IN  IF values[i] # None /\ byte # None
                 THEN Some(into_bits_le(byte.v)[i % 8]) ELSE values[i]]

\* some wake source of the select at the top of the loop is ready
RunWakeReady == (\E i \in Pins : pins[i].request_signal) \/ IntLow

\* (a slip: every requested Output is answered Done at once)
RunAccepted_AlwaysDone(slot, reg) ==
    CASE slot.state = "Requested" /\ slot.op.k = "Output" ->
           [slot EXCEPT !.state = "Done", !.response_signal = TRUE]
      [] slot.state = "Requested" /\ slot.op.k = "Watch" ->
           [slot EXCEPT !.state = "ProcessingRequest", !.response_signal = TRUE]
      [] OTHER -> slot
\* runner.rs 80-116: the slot after the snapshot closure
RunAccepted(slot, reg) ==
    CASE slot.state = "Requested" /\ slot.op.k = "Output" ->
           [slot EXCEPT !.state = IF reg.direction # "Output" \/ reg.latch # slot.op.latch
                                    THEN "ProcessingRequest" ELSE "Done",
                        !.response_signal = TRUE]
      [] slot.state = "Requested" /\ slot.op.k = "Watch" ->
           [slot EXCEPT !.state = "ProcessingRequest", !.response_signal = TRUE]
      [] OTHER -> slot

\* runner.rs 58-116: the select and the snapshot of the slots
RunSnapshot ==
    /\ run.impl = "runner" /\ run.pc = "idle" /\ RunWakeReady
    /\ LET ready == {i \in Pins : pins[i].request_signal}
       IN  pins' = [i \in Pins |->
                      RunAccepted(IF i \in ready /\ (\A j \in ready : i <= j)
                                    THEN [pins[i] EXCEPT !.request_signal = FALSE]
                                    ELSE pins[i],
                                  run.registers[i])]
    /\ run' = [run EXCEPT !.pc = "iodir", !.yielded = FALSE,
                          !.requests = [i \in Pins |-> [op |-> pins[i].op,
                                                        state |-> pins[i].state]]]
    /\ bus' = [bus EXCEPT !.iter = << >>]
    /\ UNCHANGED <<pure, per, hnd>>

\* the new_* values of one pin in runner.rs (120-185)
RunIntended(reg, op) ==
    [reg EXCEPT !.direction = IF op.k = "Output" THEN "Output" ELSE "Input",
                !.latch = IF op.k = "Output" THEN op.latch ELSE @,
                !.pull_up_enabled = IF op.k = "Watch" THEN op.pull_up_enabled ELSE @,
                !.int_enabled = op.k = "Watch"]

\* registers[i].<field of the kind> = new[i]
CacheField(reg, intended, type) ==
    CASE type = IODIR -> [reg EXCEPT !.direction = intended.direction]
      [] type = OLAT -> [reg EXCEPT !.latch = intended.latch]
      [] type = GPPU -> [reg EXCEPT !.pull_up_enabled = intended.pull_up_enabled]
      [] type = GPINTEN -> [reg EXCEPT !.int_enabled = intended.int_enabled]

\* (a slip: GPPU written before OLAT)
RunWrites_GppuFirst ==
    {[pc |-> "iodir", type |-> IODIR, next |-> "gppu"],
     [pc |-> "gppu", type |-> GPPU, next |-> "olat"],
     [pc |-> "olat", type |-> OLAT, next |-> "gpinten"],
     [pc |-> "gpinten", type |-> GPINTEN, next |-> "gpio"]}
\* the order of the write_registers calls of runner.rs (120-198)
RunWrites ==
    {[pc |-> "iodir", type |-> IODIR, next |-> "olat"],
     [pc |-> "olat", type |-> OLAT, next |-> "gppu"],
     [pc |-> "gppu", type |-> GPPU, next |-> "gpinten"],
     [pc |-> "gpinten", type |-> GPINTEN, next |-> "gpio"]}

\* one write_registers(..).await? followed by the update of the cache
RunWrite ==
    /\ run.impl = "runner"
    /\ \E st \in RunWrites :
         /\ run.pc = st.pc
         /\ LET intended == [i \in Pins |-> RunIntended(run.registers[i], run.requests[i].op)]
                writes == write_registers(st.type, CacheBits(run.registers, st.type),
                                          CacheBits(intended, st.type))
                after == [run EXCEPT
                            !.pc = st.next,
                            !.registers = [i \in Pins |-> CacheField(@[i], intended[i], st.type)],
                            !.loc.previous_int_enabled =
                               IF st.type = GPINTEN
                                 THEN [i \in Pins |-> run.registers[i].int_enabled] ELSE @]
            IN  IF writes = << >>
                  THEN run' = after /\ UNCHANGED bus
                  ELSE \E ok \in Oks :
                         IF ok
                           THEN /\ bus' = Emit(bus, [op |-> "write", buffer |-> writes[1]])
                                /\ run' = [after EXCEPT !.yielded = TRUE]
                           ELSE run' = Failed(run, "I2c") /\ UNCHANGED bus
    /\ per' = Served(bus')
    /\ UNCHANGED <<pure, pins, hnd>>

\* runner.rs 200-233: the GPIO read
RunGpioRead ==
    /\ run.impl = "runner" /\ run.pc = "gpio"
    /\ LET gpio_buffer == [i \in Pins |->
                 IF (run.loc.previous_int_enabled[i] /\ ~run.registers[i].int_enabled)
                      \/ run.requests[i].op.k = "Watch"
                   THEN Some(FALSE) ELSE None]
           want == [ab \in {A, B} |-> \E i \in range(ab) : gpio_buffer[i] # None]
       IN  IF BankCount(want) = 0
             THEN run' = [run EXCEPT !.pc = "complete"] /\ UNCHANGED bus
             ELSE \E ok \in Oks : \E read \in Answers(address_of([type |-> GPIO,
                                       ab |-> IF want[A] THEN A ELSE B], FALSE),
                                                         BankCount(want)) :
                    IF ok
                      THEN /\ bus' = Emit(bus, [op |-> "write_read",
                                    buffer |-> <<address_of([type |-> GPIO,
                                                  ab |-> IF want[A] THEN A ELSE B], FALSE)>>,
                                    read |-> BankCount(want)])
                           /\ run' = [run EXCEPT
                                !.pc = "complete", !.yielded = TRUE,
                                !.loc.read_gpio_states = [i \in Pins |->
                                   LET value == read_registers(gpio_buffer, read)[i]
                                   IN  IF value = None THEN None
                                       ELSE Some(PinState_from(value.v))]]
                      ELSE run' = Failed(run, "I2c") /\ UNCHANGED bus
    /\ per' = Served(bus')
    /\ UNCHANGED <<pure, pins, hnd>>

\* runner.rs 239-262: the slot after the completion closure
RunCompleted(slot, request, read_gpio_state) ==
    IF request.op = slot.op /\ slot.state = "ProcessingRequest"
      THEN CASE slot.op.k = "Output" -> [slot EXCEPT !.state = "Done", !.response_signal = TRUE]
             [] slot.op.k = "Watch" /\ read_gpio_state # slot.op.last_known_value ->
                  [slot EXCEPT !.op.last_known_value = read_gpio_state,
                               !.response_signal = TRUE]
             [] OTHER -> slot
      ELSE slot

\* runner.rs 239-263: the end of the iteration
RunComplete ==
    /\ run.impl = "runner" /\ run.pc = "complete"
    /\ pins' = [i \in Pins |->
                  RunCompleted(pins[i], run.requests[i], run.loc.read_gpio_states[i])]
    /\ run' = [run EXCEPT !.pc = "idle", !.loc = LocInit, !.requests = << >>,
                          !.yielded = ~RunWakeReady]
    /\ UNCHANGED <<pure, per, hnd, bus>>

NextCtl ==
    \/ CallUpdateOp \/ CallInputOp \/ CallIntoWatch \/ ResponseWake \/ DropCall
    \/ InterruptLine \/ LibResetPulse \/ ConfigureIocon
    \/ LibSnapshot \/ LibWrite \/ LibInterrupt \/ LibGpioRead \/ LibFinish
    \/ LibWake \/ LibWatcher
    \/ RunSnapshot \/ RunWrite \/ RunGpioRead \/ RunComplete

SpecCtl == InitCtl /\ [][NextCtl]_vars

-----------------------------------------------------------------------------
(* claims about the controller runner                                      *)

\* the byte of the register (type, ab) that the cache stands for
CacheByte(type, ab) == BankByte(CacheBits(run.registers, type), ab)

\* C1: after every loop iteration that ends without an error, the cache of
\* every pin equals the bits last written to the device for IODIR, GPPU, OLAT,
\* GPINTEN, INTCON and DEFVAL (the reset values where nothing was written).
C1_CacheEqualsWritten ==
    run.pc \in {"top", "wait", "idle"} =>
        \A type \in {IODIR, GPPU, OLAT, GPINTEN, INTCON, DEFVAL} : \A ab \in {A, B} :
            CacheByte(type, ab) = bus.written[[type |-> type, ab |-> ab]]

\* C7: the first bus transaction is the write [0x0A, 0x44], issued after the
\* reset output was driven low and then high, and no slot is served before it.
C7_ResetThenIocon ==
    /\ bus.first # None =>
          /\ bus.reset = <<"Low", "High">>
          /\ bus.first.v = [op |-> "write", buffer |-> <<10, 68>>]
    /\ bus.first = None => \A i \in Pins : pins[i].state = "Done" => pins[i] = PinsInit[i]

\* C2: whenever update_op has returned (through into_output, into_input or
\* set_state), the slot held the state Done at the return, never Requested or
\* ProcessingRequest.
C2_ReturnsOnlyDone ==
    \A i \in Pins :
        (hnd[i].ret # None /\ hnd[i].ret.v.fn \in {"into_output", "into_input", "set_state"})
            => hnd[i].ret.v.state = "Done"

\* the edges the lifecycle of a slot is said to follow, a the slot before a
\* step and b after it: a handle installs Requested, the runner accepts
\* (Requested to ProcessingRequest, op kept) and completes (from
\* ProcessingRequest)
LifecycleEdge(a, b) ==
    \/ b.state = "Requested"
    \/ a.state = "Requested" /\ b.state = "ProcessingRequest" /\ b.op = a.op
    \/ a.state = "ProcessingRequest" /\ b.state \in {"ProcessingRequest", "Done"}

\* the shortcut of runner.rs: a requested Output whose direction and latch
\* the cache already holds is answered Done by the snapshot
NoChangeNeeded(i, a, b) ==
    /\ run.impl = "runner"
    /\ a.state = "Requested" /\ b.state = "Done" /\ b.op = a.op
    /\ a.op.k = "Output"
    /\ run.registers[i].direction = "Output" /\ run.registers[i].latch = a.op.latch

\* C4 as stated: op and state of a slot change only along the lifecycle
\* edges; never from Requested to Done directly, never on a slot that is Done
\* (but for a handle installing a new request).
C4_EdgesOnly ==
    [][\A i \in Pins :
          (pins'[i].state # pins[i].state \/ pins'[i].op # pins[i].op)
              => LifecycleEdge(pins[i], pins'[i])]_vars

\* C4 amended: op and state of a slot change only along the lifecycle edges,
\* or from Requested to Done directly when run of runner.rs finds that a
\* requested Output needs no change of direction or latch.
C4_EdgesOrNoChange ==
    [][\A i \in Pins :
          (pins'[i].state # pins[i].state \/ pins'[i].op # pins[i].op)
              => (LifecycleEdge(pins[i], pins'[i]) \/ NoChangeNeeded(i, pins[i], pins'[i]))]_vars

\* the snapshot of runner.rs has just answered a request Done on the spot
C4_Witness ==
    /\ run.impl = "runner" /\ run.pc = "iodir"
    /\ \E i \in Pins : run.requests[i].state = "Requested" /\ pins[i].state = "Done"

\* the register kinds of the writes of the current iteration, in bus order
IterWrites == SelectSeq(bus.iter, LAMBDA tx : tx.op = "write")
KindAt(k) == from_address(IterWrites[k].addr, FALSE).v.type

\* the writes of the current iteration are of the kinds of order and appear
\* in the relative order of order
OrderedBy(order) ==
    run.requests # << >> =>
        \A j, k \in 1 .. Len(IterWrites) :
            /\ \E p \in 1 .. Len(order) : order[p] = KindAt(k)
            /\ j < k => \E p, q \in 1 .. Len(order) :
                           p < q /\ order[p] = KindAt(j) /\ order[q] = KindAt(k)

C8_ErrorEndsRunner ==
    [][/\ (run.err = None /\ run'.err # None) =>
            /\ run'.pc = "terminated"
            /\ run'.err = Some(IF run.pc \in {"reset_low", "reset_high"}
                                 THEN "ResetPin" ELSE "I2c")
            /\ run'.registers = run.registers
            /\ bus' = bus /\ pins' = pins
       /\ run.err # None =>
            /\ run' = run
            /\ bus'.first = bus.first /\ bus'.iter = bus.iter /\ bus'.written = bus.written
            /\ \A i \in Pins : pins'[i].state = "Done" => pins[i].state = "Done"]_vars

\* the runner has ended on a bus error in the middle of a request, whose
\* caller is still suspended
C8_Witness ==
    /\ run.pc = "terminated" /\ run.err = Some("I2c")
    /\ \E i \in Pins : hnd[i].pc = "waiting" /\ pins[i].state = "ProcessingRequest"

-----------------------------------------------------------------------------
(* The controller without errors and without cancelled calls.  The runner *)
(* task is polled whenever it can proceed, and a handle whose response     *)
(* signal is set runs at one of the awaits of the runner (the runner is    *)
(* suspended again and again, so the fairness of the handles is strong).   *)
(* One environment event fewer than MaxEvents is explored.                 *)

InitCtlFair ==
    /\ pure = PureIdle /\ per = PerIdle
    /\ pins = PinsInit /\ hnd = HndInit
    /\ bus = [BusInit EXCEPT !.faulty = FALSE, !.events = 1]
    /\ \E impl \in {"lib", "runner"} : run = RunInit(impl)

RunnerStep ==
    \/ LibResetPulse \/ ConfigureIocon
    \/ LibSnapshot \/ LibWrite \/ LibInterrupt \/ LibGpioRead \/ LibFinish
    \/ LibWake \/ LibWatcher
    \/ RunSnapshot \/ RunWrite \/ RunGpioRead \/ RunComplete

NextCtlFair ==
    \/ CallUpdateOp \/ CallInputOp \/ CallIntoWatch \/ ResponseWake
    \/ InterruptLine \/ RunnerStep

SpecCtlFair ==
    /\ InitCtlFair /\ [][NextCtlFair]_vars
    /\ WF_vars(RunnerStep)
    /\ \A i \in ActivePins : SF_vars(ResponseWakeOf(i))

\* C3: with no error and fair scheduling, every call of into_output and of
\* into_input eventually returns (a runner that has panicked on an
\* unimplemented request of another pin is set aside).
C3_EventuallyReturns ==
    \A i \in ActivePins :
        (hnd[i].pc = "waiting" /\ hnd[i].call.v.fn \in {"into_output", "into_input"})
            ~> (hnd[i].pc = "idle" \/ run.pc = "panicked")

-----------------------------------------------------------------------------
(* Register::from_address applied to every address byte in both modes.     *)

InitDecode ==
    /\ pure \in [fn : {"from_address"}, arg : [address : Bytes, bank_mode : BOOLEAN],
                 out : {0}, step : {0}]
    /\ per = PerIdle
    /\ CtlIdle

\* Register::from_address(address, bank_mode)
ApplyDecode ==
    /\ pure.fn = "from_address" /\ pure.step = 0
    /\ pure' = [pure EXCEPT !.out = from_address(pure.arg.address, pure.arg.bank_mode),
                            !.step = 1]
    /\ UNCHANGED <<per, ctl>>

NextDecode == ApplyDecode
SpecDecode == InitDecode /\ [][NextDecode]_vars

\* C11: every address byte decodes as stated: with BANK=0 the addresses
\* 0..21 give kind = address div 2 and bank = address mod 2; with BANK=1 the
\* addresses 0..10 give bank A and kind = address, 11..21 give bank B and
\* kind = address - 11; every address from 22 on gives None in both modes
\* (a result is always produced: no underflow, no panic).
C11_Decodes ==
    (pure.fn = "from_address" /\ pure.step = 1) =>
        LET a == pure.arg.address
        IN  pure.out =
              IF a >= 22 THEN [some |-> FALSE]
              ELSE IF ~pure.arg.bank_mode
                THEN [some |-> TRUE, v |-> [type |-> a \div 2, ab |-> a % 2]]
              ELSE IF a <= 10 THEN [some |-> TRUE, v |-> [type |-> a, ab |-> 0]]
              ELSE [some |-> TRUE, v |-> [type |-> a - 11, ab |-> 1]]
\* address 11 has been decoded with BANK=1 as IODIR of bank B
C11_Witness ==
    /\ pure.fn = "from_address" /\ pure.step = 1
    /\ pure.arg.address = 11 /\ pure.arg.bank_mode
    /\ pure.out = Some([type |-> IODIR, ab |-> B])

-----------------------------------------------------------------------------
(* The peripheral driven through its public methods.  The application owns *)
(* the Mcp23017 value, so a method runs from start to end before the next  *)
(* (run is resumed between them and acts when a detector or the reset      *)
(* observer completes).  pure names the method that ran last.              *)

\* the pins whose outside level changes, one of each bank
LevelPins == {0, 8}
\* the numbers of data bytes of a write transaction and of bytes of a read
TxLengths == {0, 1, 2}
ReadLengths == {1, 2}
\* what the bus master sends: a register pointer (BANK=0 numbering), then
\* data bytes for per-pin registers (pin 0 or 8 of the bank) or for IOCON
TxAddresses == {0, 4, 5, 16, 18, 19, 22}
TxData == {0, 1}
IoconAddress == address_of([type |-> IOCON, ab |-> A], FALSE)
IoconData == {0, 64, 66, 36, 128}
Transactions ==
    {<<a>> \o d : a \in TxAddresses, d \in UNION {[1 .. n -> TxData] : n \in TxLengths}}
        \cup {<<IoconAddress, v>> : v \in IoconData}

\* the methods the application calls and the changes of the outside world
\* are counted and capped (pure.step); what run does by itself is not
MaxPerOps == 4
PerLabel(fn, arg) == [fn |-> fn, arg |-> arg, out |-> 0, step |-> pure.step + 1]
PerGoesOn == ~per.panicked /\ pure.step < MaxPerOps

\* Mcp23017::new, built with overflow checks (no operation of this model
\* overflows: the pointers sent stay far below 255)
InitPer ==
    /\ pure = [fn |-> "new", arg |-> 0, out |-> 0, step |-> 0]
    /\ per = new([i \in Pins |-> "Low"], TRUE)
    /\ CtlIdle

\* the outside world changes the level on some of the pins
PinLevel ==
    /\ PerGoesOn
    /\ \E flip \in (SUBSET LevelPins) \ {{}} :
          /\ per' = [per EXCEPT !.gpio_pins =
                        [i \in Pins |-> IF i \in flip THEN [@[i] EXCEPT !.ext = Not(@)]
                                        ELSE @[i]]]
          /\ pure' = PerLabel("level", 0)
    /\ UNCHANGED ctl

\* process_write_transaction(bytes)
ProcessWriteTransaction ==
    /\ PerGoesOn
    /\ \E bytes \in Transactions :
          /\ per' = process_write_transaction(per, bytes)
          /\ pure' = PerLabel("process_write_transaction", Len(bytes))
    /\ UNCHANGED ctl

\* what a read of n bytes starts from: the pointer and the flags
ReadFrom(n) == [n |-> n, address |-> per.selected_address, int_flags |-> per.int_flags]

\* prepare_read_buffer(&mut [0; n])
PrepareReadBuffer ==
    /\ PerGoesOn
    /\ \E n \in ReadLengths :
          LET buffer == prepare_read_buffer(per, [k \in 1 .. n |-> 0])
          IN  /\ per' = IF buffer = None THEN [per EXCEPT !.panicked = TRUE] ELSE per
              /\ pure' = [PerLabel("prepare_read_buffer", ReadFrom(n)) EXCEPT !.out = buffer]
    /\ UNCHANGED ctl

\* confirm_bytes_read(n)
ConfirmBytesRead ==
    /\ PerGoesOn
    /\ \E n \in ReadLengths :
          /\ per' = confirm_bytes_read(per, n)
          /\ pure' = PerLabel("confirm_bytes_read", ReadFrom(n))
    /\ UNCHANGED ctl

\* run: the detector of pin i is armed
Armed_AnyPin(p, i) == ~p.int_flags[i]
Armed(p, i) == p.int_enabled[i] /\ ~p.int_flags[i]
\* run: the value the detector of pin i compares with
compare_value(p, i) ==
    IF p.interrupt_control[i] = "CompareWithConfiguredValue"
      THEN p.int_compare[i] ELSE p.known_input_states[i]
\* run, Second((level, index)), with the re-evaluation of the outputs left out
Captured_NoUpdate(p, index, level) ==
    [p EXCEPT !.int_flags[index] = TRUE,
              !.int_captured_value[index] = level,
              !.known_input_states[index] = level]
\* run, Second((level, index))
Captured(p, index, level) ==
    update_interrupts([p EXCEPT !.int_flags[index] = TRUE,
                                !.int_captured_value[index] = level,
                                !.known_input_states[index] = level])

\* (a slip: the compare value itself is what gets captured)
RunCapture_ComparedLevel ==
    /\ ~per.panicked
    /\ \E i \in Pins :
          /\ Armed(per, i)
          /\ per.gpio_pins[i].ext = Not(compare_value(per, i))
          /\ per' = Captured(per, i, compare_value(per, i))
          /\ pure' = [PerLabel("capture", i) EXCEPT !.step = pure.step]
    /\ UNCHANGED ctl
\* run: the detector of an armed pin completes when the adapter's level is
\* the opposite of the compare value
RunCapture ==
    /\ ~per.panicked
    /\ \E i \in Pins :
          /\ Armed(per, i)
          /\ per.gpio_pins[i].ext = Not(compare_value(per, i))
          /\ per' = Captured(per, i, Not(compare_value(per, i)))
          /\ pure' = [PerLabel("capture", i) EXCEPT !.step = pure.step]
    /\ UNCHANGED ctl

\* ResetPin::wait_until_reset, the pin seen low: the instant is kept
ResetLow ==
    /\ PerGoesOn
    /\ per.reset_low_since = None
    /\ per' = [per EXCEPT !.reset_low_since = Some("then")]
    /\ pure' = PerLabel("reset_low", 0)
    /\ UNCHANGED ctl

\* ResetPin::wait_until_reset, the pin high again after low_duration (in
\* microseconds), and run's First(()) when the pulse was long enough
minimum_duration == 1
ResetHigh ==
    /\ PerGoesOn
    /\ per.reset_low_since # None
    /\ \E low_duration \in {0, 1, 2} :
          IF low_duration >= minimum_duration
            THEN /\ per' = reset([per EXCEPT !.reset_low_since = None])
                 /\ pure' = PerLabel("reset",
                               [flagged |-> \E i \in Pins : per.int_flags[i],
                                outputs |-> \E i \in Pins : per.io_directions[i] = "Output"])
            ELSE /\ per' = [per EXCEPT !.reset_low_since = None]
                 /\ pure' = PerLabel("reset_short", 0)
    /\ UNCHANGED ctl

NextPer ==
    \/ PinLevel \/ ProcessWriteTransaction \/ PrepareReadBuffer \/ ConfirmBytesRead
    \/ RunCapture \/ ResetLow \/ ResetHigh
SpecPer == InitPer /\ [][NextPer]_vars

\* the addresses a read of n bytes goes through, starting at address
RECURSIVE AddressesRead(_, _, _)
AddressesRead(p, address, n) ==
    IF n = 0 THEN {}
    ELSE {address} \cup
         AddressesRead(p, advance_address(address, advance_address_mode(p)) % 256, n - 1)
\* the read covers GPIO or INTCAP of the bank
CoversBank(p, from, ab) ==
    \E a \in AddressesRead(p, from.address, from.n) :
        \E type \in {GPIO, INTCAP} :
            from_address(a, p.bank_mode) = Some([type |-> type, ab |-> ab])

\* C12: after confirm_bytes_read has covered a byte addressed to GPIO or
\* INTCAP of bank X all eight INTF bits of bank X are 0, and the INTF bits of
\* a bank it covered no such byte of are what they were; prepare_read_buffer
\* clears no INTF bit.
C12_ReadClearsFlags ==
    /\ (pure.fn = "confirm_bytes_read" /\ ~per.panicked) =>
          \A ab \in {A, B} :
              IF CoversBank(per, pure.arg, ab)
                THEN \A i \in range(ab) : ~per.int_flags[i]
                ELSE \A i \in range(ab) : per.int_flags[i] = pure.arg.int_flags[i]
    /\ pure.fn = "prepare_read_buffer" => per.int_flags = pure.arg.int_flags
\* INTCAP of bank A has been read with flags set in both banks: the flag of
\* pin 0 is gone, that of pin 8 is still there
C12_Witness ==
    /\ pure.fn = "confirm_bytes_read" /\ ~per.panicked
    /\ pure.arg.n = 1 /\ pure.arg.address = 16 /\ ~per.bank_mode
    /\ pure.arg.int_flags[0] /\ pure.arg.int_flags[8]
    /\ ~per.int_flags[0] /\ per.int_flags[8]

\* C13: in every step of the peripheral (write transaction, read, capture in
\* run, reset) the INTF bit of a pin goes from 0 to 1 only if the GPINTEN bit
\* of the pin is 1 in that step.
C13_FlagOnlyIfEnabled ==
    [][\A i \in Pins : (~per.int_flags[i] /\ per'.int_flags[i]) => per.int_enabled[i]]_vars
\* the level of pin 8 has changed with its GPINTEN bit 0 and no flag is set
\* for it, while pin 0, enabled, has been captured
C13_Witness ==
    /\ pure.fn = "capture" /\ pure.arg = 0
    /\ per.int_flags[0] /\ per.int_enabled[0]
    /\ ~per.int_enabled[8] /\ per.gpio_pins[8].ext = "High" /\ ~per.int_flags[8]

\* C14: whenever IOCON.MIRROR is 1, the two interrupt outputs have been
\* configured last with the same level and the same drive mode.
C14_MirroredOutputsEqual ==
    per.mirror_interrupts => per.interrupt_pins[1] = per.interrupt_pins[2]
\* MIRROR=1, a flag set in bank B only, both outputs at the active level
C14_Witness ==
    /\ per.mirror_interrupts /\ ~per.panicked
    /\ per.int_flags[8] /\ \A i \in range(A) : ~per.int_flags[i]
    /\ \A k \in 1 .. AB_COUNT : per.interrupt_pins[k].level = per.int_active_state

\* C15: after every completed operation the level configured on the
\* interrupt output of bank X is INTPOL if a flag of bank X is set, or MIRROR
\* is 1 and a flag of either bank is set, and the complement of INTPOL
\* otherwise; its drive mode is the ODR setting.
C15_OutputRule ==
    ~per.panicked =>
        \A k \in 1 .. AB_COUNT :
            LET own == \E i \in range(AB_VARIANTS[k]) : per.int_flags[i]
                any == \E i \in Pins : per.int_flags[i]
                asserted == own \/ (per.mirror_interrupts /\ any)
            IN  /\ per.interrupt_pins[k].level =
                     IF asserted THEN per.int_active_state
                     ELSE IF per.int_active_state = "High" THEN "Low" ELSE "High"
                /\ per.interrupt_pins[k].mode = per.int_mode
\* INTPOL=1 and MIRROR=1 with a flag in bank A only: the output of bank B is
\* High, asserted by the flag of the other bank
C15_Witness ==
    /\ ~per.panicked /\ per.int_active_state = "High" /\ per.mirror_interrupts
    /\ per.int_flags[0] /\ \A i \in range(B) : ~per.int_flags[i]
    /\ per.interrupt_pins[2].level = "High"

\* C18: after Mcp23017::reset, run on a valid reset pulse from any state:
\* every register array, the IOCON fields and the address pointer have their
\* construction defaults, every adapter is configured with the default
\* direction, pull-up and latch, no INTF bit is set and both interrupt
\* outputs are configured at the inactive level.
C18_ResetRestoresDefaults ==
    pure.fn = "reset" =>
        /\ ~per.bank_mode /\ ~per.mirror_interrupts /\ ~per.sequential_mode
        /\ per.int_mode = "ActiveDriver" /\ per.int_active_state = "Low"
        /\ per.selected_address = 0
        /\ \A i \in Pins :
              /\ per.io_directions[i] = "Input" /\ ~per.pull_up_enabled[i]
              /\ per.output_latches[i] = "Low" /\ ~per.gpio_inverted[i]
              /\ ~per.int_enabled[i] /\ per.int_compare[i] = "Low"
              /\ per.interrupt_control[i] = "CompareWithPreviousValue"
              /\ ~per.int_flags[i] /\ per.int_captured_value[i] = "Low"
              /\ per.gpio_pins[i].io_direction = "Input"
              /\ ~per.gpio_pins[i].pull_up_enabled
              /\ per.gpio_pins[i].level = "Low"
        /\ \A k \in 1 .. AB_COUNT :
              per.interrupt_pins[k] = [mode |-> "ActiveDriver", level |-> "High"]
\* a reset has been done in a state with pins configured as outputs
C18_Witness ==
    pure.fn = "reset" /\ pure.arg.outputs /\ per.gpio_pins[0].io_direction = "Input"

\* a write transaction in which a byte addressed to INTF or INTCAP is
\* skipped but for the pointer advance: the state it ends in, and whether a
\* byte was addressed so
RECURSIVE SkippingReadOnly(_, _, _)
SkippingReadOnly(p, bytes, k) ==
    IF k > Len(bytes) THEN [p |-> p, hit |-> FALSE]
    ELSE LET register == from_address(p.selected_address, p.bank_mode)
             read_only == register # None /\ register.v.type \in {INTF, INTCAP}
             written == IF register = None \/ read_only THEN p
                        ELSE write_register(p, register.v, bytes[k])
             rest == SkippingReadOnly(advance_selected(written), bytes, k + 1)
         IN  [p |-> rest.p, hit |-> read_only \/ rest.hit]

\* C19: a data byte of a write transaction addressed to INTF or INTCAP of
\* either bank changes nothing but the pointer, which advances, and the
\* other bytes of the transaction are written as usual.
C19_ReadOnlyWriteIgnored ==
    [][pure'.fn = "process_write_transaction" =>
          \A bytes \in Transactions :
              LET expected == SkippingReadOnly([per EXCEPT !.selected_address = bytes[1]],
                                               bytes, 2)
              IN  (per' = process_write_transaction(per, bytes) /\ expected.hit)
                      => per' = expected.p]_vars

-----------------------------------------------------------------------------
(* The bit packing of controller/src/util.rs applied to every byte and to  *)
(* every array of eight booleans, there and back.                          *)

InitBits ==
    /\ \/ pure \in [fn : {"into_from"}, arg : Bytes, out : {0}, step : {0}]
       \/ pure \in [fn : {"from_into"}, arg : [0 .. 7 -> BOOLEAN], out : {0}, step : {0}]
    /\ per = PerIdle
    /\ CtlIdle

\* x.into_bits_le(), of the byte given or of the byte packed before
ApplyIntoBits ==
    /\ \/ pure.fn = "into_from" /\ pure.step = 0
          /\ pure' = [pure EXCEPT !.out = into_bits_le(pure.arg), !.step = 1]
       \/ pure.fn = "from_into" /\ pure.step = 1
          /\ pure' = [pure EXCEPT !.out = into_bits_le(pure.out), !.step = 2]
    /\ UNCHANGED <<per, ctl>>

\* u8::from_bits_le(v), of the array given or of the array unpacked before
ApplyFromBits ==
    /\ \/ pure.fn = "from_into" /\ pure.step = 0
          /\ pure' = [pure EXCEPT !.out = from_bits_le(pure.arg), !.step = 1]
       \/ pure.fn = "into_from" /\ pure.step = 1
          /\ pure' = [pure EXCEPT !.out = from_bits_le(pure.out), !.step = 2]
    /\ UNCHANGED <<per, ctl>>

NextBits == ApplyIntoBits \/ ApplyFromBits
SpecBits == InitBits /\ [][NextBits]_vars

\* C16: u8::from_bits_le(x.into_bits_le()) = x for every byte x and
\* u8::from_bits_le(v).into_bits_le() = v for every array v of 8 booleans;
\* bit i of the byte is the element of index i.
C16_BitsRoundTrip ==
    /\ (pure.fn \in {"into_from", "from_into"} /\ pure.step = 2) => pure.out = pure.arg
    /\ (pure.fn = "into_from" /\ pure.step = 1) =>
          \A i \in 0 .. 7 : pure.out[i] <=> ((pure.arg \div (2 ^ i)) % 2 = 1)
    /\ (pure.fn = "from_into" /\ pure.step = 1) =>
          /\ pure.out \in Bytes
          /\ \A i \in 0 .. 7 : pure.arg[i] <=> ((pure.out \div (2 ^ i)) % 2 = 1)
\* the byte 0x81 has gone to bits and back, bits 0 and 7 set
C16_Witness ==
    pure.fn = "into_from" /\ pure.step = 2 /\ pure.arg = 129 /\ pure.out = 129

-----------------------------------------------------------------------------
(* advance_address applied again and again to every pointer value, in the  *)
(* mode advance_address_mode gives for the IOCON bits.                     *)

MaxAdvances == 22

InitAdvance ==
    /\ \E sequential_mode \in BOOLEAN, bank_mode \in BOOLEAN, start \in Bytes :
          pure = [fn |-> "advance_address",
                  arg |-> [sequential_mode |-> sequential_mode, bank_mode |-> bank_mode,
                           start |-> start],
                  out |-> start, step |-> 0]
    /\ per = PerIdle
    /\ CtlIdle

\* self.selected_address = advance_address(self.selected_address, mode); a
\* u8 addition that overflows panics (out = -1) or wraps, by the build
ApplyAdvance ==
    /\ pure.fn = "advance_address" /\ pure.step < MaxAdvances /\ pure.out \in Bytes
    /\ LET next == advance_address(pure.out, advance_address_mode(pure.arg))
       IN  \E overflow_checks \in BOOLEAN :
              pure' = [pure EXCEPT !.step = @ + 1,
                                   !.out = IF next \in Bytes THEN next
                                           ELSE IF overflow_checks THEN -1
                                           ELSE next % 256]
    /\ UNCHANGED <<per, ctl>>

NextAdvance == ApplyAdvance
SpecAdvance == InitAdvance /\ [][NextAdvance]_vars

\* C17: in Toggle mode (SEQOP=0, BANK=0) two advances give the starting
\* pointer back, for every pointer value; in Cycle mode (SEQOP=1) 22
\* advances give the starting pointer back for every pointer in 0..21, the
\* pointer going up by one and from 21 to 0; in Fixed mode (SEQOP=0, BANK=1)
\* the pointer does not change.
C17_AdvanceCycles ==
    pure.fn = "advance_address" =>
        LET start == pure.arg.start
        IN  CASE pure.arg.sequential_mode ->
                   start \in 0 .. 21 =>
                       /\ pure.out = (start + pure.step) % 22
                       /\ pure.step = 22 => pure.out = start
              [] ~pure.arg.sequential_mode /\ ~pure.arg.bank_mode ->
                   /\ pure.step = 1 =>
                         pure.out = IF start % 2 = 0 THEN start + 1 ELSE start - 1
                   /\ pure.step = 2 => pure.out = start
              [] OTHER -> pure.out = start
\* the pointer has gone from 21 to 0 in Cycle mode and is back at 21 after
\* 22 advances
C17_Witness ==
    /\ pure.fn = "advance_address" /\ pure.arg.sequential_mode
    /\ pure.arg.start = 21 /\ pure.step = 22 /\ pure.out = 21

-----------------------------------------------------------------------------
(* One client on a fresh controller: pin 3 into_output(Low), then          *)
(* set_state(High), then set_state(Low), each call made when the one       *)
(* before has returned.  No bus error, no interrupt.                       *)

ScenarioPin == 3
Script ==
    << [fn |-> "into_output", new_op |-> OpOutput("Low"), mode |-> "Output", by_value |-> TRUE],
       [fn |-> "set_state", new_op |-> OpOutput("High"), mode |-> "Output", by_value |-> FALSE],
       [fn |-> "set_state", new_op |-> OpOutput("Low"), mode |-> "Output", by_value |-> FALSE] >>

InitScenario ==
    /\ pure = PureIdle /\ per = PerIdle
    /\ pins = PinsInit /\ hnd = HndInit
    /\ bus = [BusInit EXCEPT !.faulty = FALSE, !.log = Some(<< >>)]
    /\ \E impl \in {"lib", "runner"} : run = RunInit(impl)

\* the next call of the script (bus.events counts the calls made)
ScenarioCall ==
    /\ bus.events < Len(Script)
    /\ bus.events > 0 => hnd[ScenarioPin].mode = "Output"
    /\ UpdateOp(ScenarioPin, Script[bus.events + 1])

ScenarioWake == ResponseWakeOf(ScenarioPin)

\* the runner; its interrupt watcher stays in wait_for_low, the line being
\* high throughout
NextScenario ==
    \/ ScenarioCall \/ ScenarioWake
    \/ LibResetPulse \/ ConfigureIocon
    \/ LibSnapshot \/ LibWrite \/ LibInterrupt \/ LibGpioRead \/ LibFinish \/ LibWake
    \/ RunSnapshot \/ RunWrite \/ RunGpioRead \/ RunComplete
SpecScenario == InitScenario /\ [][NextScenario]_vars

\* the write transactions so far, as byte sequences
BusWrites == [k \in 1 .. Len(SelectSeq(bus.log.v, LAMBDA tx : tx.op = "write")) |->
                SelectSeq(bus.log.v, LAMBDA tx : tx.op = "write")[k].buffer]
IsPrefix(q, of) == Len(q) <= Len(of) /\ \A k \in 1 .. Len(q) : q[k] = of[k]
ScenarioDone ==
    /\ bus.events = Len(Script) /\ hnd[ScenarioPin].pc = "idle"
    /\ run.pc \in {"idle", "wait"}
\* the bus carries the writes of expected, in order, and nothing else
WritesAre(expected) ==
    /\ bus.log.v = SelectSeq(bus.log.v, LAMBDA tx : tx.op = "write")
    /\ IsPrefix(BusWrites, expected)
    /\ ScenarioDone => BusWrites = expected

\* C20 as stated: the bus writes of the scenario are exactly IOCON = 0x44,
\* IODIR A = 0b00001000, OLAT A = 0b00001000, OLAT A = 0b00000000.
C20_ClaimedWrites == WritesAre(<< <<10, 68>>, <<0, 8>>, <<20, 8>>, <<20, 0>> >>)
\* C20: the bus writes of the scenario are exactly IOCON = 0x44,
\* IODIR A = 0b11110111 (pin 3 cleared: output), OLAT A = 0b00001000,
\* OLAT A = 0b00000000; there is no other bus transaction.
C20_ScenarioWrites == WritesAre(<< <<10, 68>>, <<0, 247>>, <<20, 8>>, <<20, 0>> >>)
\* the three calls have returned and the four writes are on the bus
C20_Witness ==
    /\ ScenarioDone /\ Len(BusWrites) = 4
    /\ hnd[ScenarioPin].ret = Some([fn |-> "set_state", state |-> "Done", holds_new_op |-> TRUE])

-----------------------------------------------------------------------------
(* The captured value (peripheral/src/mcp23017.rs, run and reset)           *)

\* C26: in a step that sets INTF[i], INTCAP[i] becomes the level the pin had
\* when the detector completed (the level that triggered the interrupt), and
\* in a step that leaves INTF[i] set INTCAP[i] keeps its value.
C26_CapturedHeld ==
    [][\A i \in Pins :
          /\ (~per.int_flags[i] /\ per'.int_flags[i])
                => /\ pure'.fn = "capture" /\ pure'.arg = i
                   /\ per'.int_captured_value[i] = per.gpio_pins[i].ext
          /\ (per.int_flags[i] /\ per'.int_flags[i])
                => per'.int_captured_value[i] = per.int_captured_value[i]]_vars
\* a flag is held with a High captured value while the pin is Low again
C26_Witness ==
    /\ pure.fn = "level"
    /\ \E i \in LevelPins : /\ per.int_flags[i]
                            /\ per.int_captured_value[i] = "High"
                            /\ per.gpio_pins[i].ext = "Low"

-----------------------------------------------------------------------------
(* The frame of a write transaction (process_write_transaction)            *)

\* the peripheral's state without the address pointer
RegistersOf(p) == [p EXCEPT !.selected_address = 0]
\* the bytes without the last one
Front(bytes) == SubSeq(bytes, 1, Len(bytes) - 1)

\* C28: process_write_transaction returns; an empty transaction changes
\* nothing and a one-byte transaction only makes its byte the pointer; the
\* last data byte of a longer transaction acts on the state its predecessors
\* left: a byte whose pointer decodes to no register changes no register, and
\* the pointer is advanced once, in the mode in force after the byte.
C28_WriteFrame ==
    [][pure'.fn = "process_write_transaction" =>
          \A bytes \in Transactions :
              per' = process_write_transaction(per, bytes) =>
                 /\ ~per'.panicked
                 /\ Len(bytes) = 1 => per' = [per EXCEPT !.selected_address = bytes[1]]
                 /\ Len(bytes) > 1 =>
                      LET before == process_write_transaction(per, Front(bytes))
                      IN  /\ per'.selected_address =
                                advance_address(before.selected_address,
                                                advance_address_mode(per'))
                          /\ from_address(before.selected_address, before.bank_mode) = None
                                => RegistersOf(per') = RegistersOf(before)]_vars

-----------------------------------------------------------------------------
(* The frame of a read (prepare_read_buffer, confirm_bytes_read)           *)

\* one confirmed byte: the side effects of the register under the pointer,
\* then the pointer advanced
ConfirmedOne(p) ==
    LET register == from_address(p.selected_address, p.bank_mode)
    IN  advance_selected(IF register # None THEN read_side_effects(p, register.v) ELSE p)
RECURSIVE ConfirmedInOrder(_, _)
ConfirmedInOrder(p, n) == IF n = 0 THEN p ELSE ConfirmedInOrder(ConfirmedOne(p), n - 1)
\* the pointer after n advances
RECURSIVE AdvancedTimes(_, _, _)
AdvancedTimes(p, address, n) ==
    IF n = 0 THEN address
    ELSE AdvancedTimes(p, advance_address(address, advance_address_mode(p)) % 256, n - 1)

\* C29: prepare_read_buffer changes nothing of the peripheral (a read that
\* is not implemented panics, and changes nothing either);
\* confirm_bytes_read(n) leaves what the side effects of the n registers
\* under the pointer leave, applied one after the other with the pointer
\* advanced after each, the pointer ends n advances further, and a bank whose
\* GPIO and INTCAP are not among these n registers keeps its INTF bits.
C29_ReadFrame ==
    [][/\ pure'.fn = "prepare_read_buffer" => [per' EXCEPT !.panicked = per.panicked] = per
       /\ pure'.fn = "confirm_bytes_read" =>
             LET n == pure'.arg.n
             IN  /\ per' = ConfirmedInOrder(per, n)
                 /\ per'.selected_address = AdvancedTimes(per, per.selected_address, n)
                 /\ \A ab \in {A, B} :
                       ~CoversBank(per, pure'.arg, ab)
                          => \A i \in range(ab) : per'.int_flags[i] = per.int_flags[i]]_vars
\* one byte of a read that started at GPIO A was confirmed with both banks
\* flagged: bank B, whose GPIO was next, is still flagged
C29_Witness ==
    /\ pure.fn = "confirm_bytes_read" /\ pure.arg.n = 1
    /\ pure.arg.address = address_of([type |-> GPIO, ab |-> A], FALSE)
    /\ pure.arg.int_flags[0] /\ pure.arg.int_flags[8]
    /\ ~per.int_flags[0] /\ per.int_flags[8]
    /\ per.selected_address = address_of([type |-> GPIO, ab |-> B], FALSE)

-----------------------------------------------------------------------------
(* The reset observer in time (peripheral/src/reset_pin.rs) under run's     *)
(* select, which drops the wait_until_reset future whenever a pin detector *)
(* completes (or run itself is cancelled) and creates it again later.      *)
(* Here pure is the outside world of the reset input: step is the clock in *)
(* ticks, arg the input's level, the tick it fell at and the longest       *)
(* completed low pulse since the last reset, out the future's position.    *)
(* A future that is waiting sees an edge at the tick it happens.           *)

MaxTime == 5
TicksPerMicro == 2
\* Duration::from_micros(1) in ticks
minimum_ticks == minimum_duration * TicksPerMicro

InitReset ==
    /\ pure = [fn |-> "new", arg |-> [level |-> "High", fell_at |-> 0, longest |-> 0],
               out |-> "dropped", step |-> 0]
    /\ per = new([i \in Pins |-> "Low"], TRUE)
    /\ CtlIdle

\* wait_until_reset polled at tick now with the input at level: the loop
\* runs until an await is pending; [low_since, done] after it
RECURSIVE wait_until_reset(_, _, _)
wait_until_reset(low_since, level, now) ==
    IF low_since # None
      THEN IF level = "High"
             THEN IF now - low_since.v >= minimum_ticks
                    THEN [low_since |-> None, done |-> TRUE]
                    ELSE wait_until_reset(None, level, now)
             ELSE [low_since |-> low_since, done |-> FALSE]
      ELSE IF level = "Low"
             THEN wait_until_reset(Some(now), level, now)
             ELSE [low_since |-> None, done |-> FALSE]

\* the future polled; when it completes run's First(()) arm resets the
\* peripheral and the loop creates the next future
Polled(fn, arg) ==
    LET after == wait_until_reset(per.reset_low_since, arg.level, pure.step)
    IN  /\ per' = IF after.done THEN reset([per EXCEPT !.reset_low_since = None])
                  ELSE [per EXCEPT !.reset_low_since = after.low_since]
        /\ pure' = [pure EXCEPT !.fn = IF after.done THEN "reset" ELSE fn,
                                !.arg = IF after.done THEN [arg EXCEPT !.longest = 0]
                                        ELSE arg,
                                !.out = "waiting"]

\* the outside world after fn: a waiting future is woken, a dropped one not
World(fn, arg) ==
    IF pure.out = "waiting" THEN Polled(fn, arg)
    ELSE pure' = [pure EXCEPT !.fn = fn, !.arg = arg] /\ UNCHANGED per

RstTick ==
    /\ pure.step < MaxTime
    /\ pure' = [pure EXCEPT !.fn = "tick", !.step = @ + 1]
    /\ UNCHANGED <<per, ctl>>

RstFall ==
    /\ pure.arg.level = "High"
    /\ World("fall", [pure.arg EXCEPT !.level = "Low", !.fell_at = pure.step])
    /\ UNCHANGED ctl

RstRise ==
    /\ pure.arg.level = "Low"
    /\ LET pulse == pure.step - pure.arg.fell_at
       IN  World("rise", [pure.arg EXCEPT !.level = "High",
                             !.longest = IF pulse > @ THEN pulse ELSE @])
    /\ UNCHANGED ctl

\* run's select (re)creates the future and polls it
RstCreate ==
    /\ pure.out = "dropped"
    /\ Polled("create", pure.arg)
    /\ UNCHANGED ctl

\* run's select drops the future
RstDrop ==
    /\ pure.out = "waiting"
    /\ pure' = [pure EXCEPT !.fn = "drop", !.out = "dropped"]
    /\ UNCHANGED <<per, ctl>>

NextReset == RstTick \/ RstFall \/ RstRise \/ RstCreate \/ RstDrop
SpecReset == InitReset /\ [][NextReset]_vars

\* C27: wait_until_reset completes only after the reset input has been low
\* without interruption for at least the threshold and has returned high.
C27_ResetOnlyAfterLongPulse ==
    [][pure'.fn = "reset" =>
          \/ pure.arg.longest >= minimum_ticks
          \/ /\ pure.arg.level = "Low" /\ pure'.arg.level = "High"
             /\ pure.step - pure.arg.fell_at >= minimum_ticks]_vars

-----------------------------------------------------------------------------
(* Pin::into_watch (controller/src/pin.rs 70-104) against both runners     *)

\* C22: with no bus error and fair scheduling every call of into_watch
\* eventually returns, and a handle it returned sees a Watch op with a
\* populated last_known_value in its slot.
C22_IntoWatchReturns ==
    \A i \in ActivePins :
        (hnd[i].pc = "waiting" /\ hnd[i].call.v.fn = "into_watch")
            ~> (/\ hnd[i].pc = "idle" /\ hnd[i].mode = "Watch"
                /\ pins[i].op.k = "Watch" /\ pins[i].op.last_known_value # None)

-----------------------------------------------------------------------------
(* A call cancelled and another made while the runner is in the middle of  *)
(* an iteration (pin.rs 9-20; runner.rs 237-262; lib.rs 617-658), with no  *)
(* bus error and fair scheduling.                                          *)

NextRace == NextCtlFair \/ DropCall

SpecRace ==
    /\ InitCtlFair /\ [][NextRace]_vars
    /\ WF_vars(RunnerStep)
    /\ \A i \in ActivePins : SF_vars(ResponseWakeOf(i))

\* the runner is inside an iteration whose snapshot saw another op in slot i
\* than the one the slot holds now
ReplacedSinceSnapshot(i) ==
    /\ run.pc \notin {"terminated", "panicked"}
    /\ DOMAIN run.requests = Pins
    /\ pins[i].op # run.requests[i].op

\* C30: the completion phase leaves a slot whose op was replaced since the
\* snapshot as it is (the new op, Requested, no response), and the new op is
\* accepted by the runner later (the slot leaves Requested).
C30_ReplacedOpPickedUp ==
    /\ [][\A i \in Pins :
             (ReplacedSinceSnapshot(i) /\ run'.requests = << >>) => pins'[i] = pins[i]]_vars
    /\ \A i \in ActivePins :
          (ReplacedSinceSnapshot(i) /\ pins[i].state = "Requested")
              ~> (pins[i].state # "Requested")

-----------------------------------------------------------------------------
(* The transaction that services the interrupt (lib.rs 455-515)            *)

\* the transaction this step put on the bus, if it is an i2c transaction()
Serviced(b) ==
    IF Len(b.iter) > Len(bus.iter) /\ b.iter[Len(b.iter)].op = "transaction"
      THEN Some(b.iter[Len(b.iter)].tx) ELSE None
\* the banks with a pin whose cached int_enabled is set
EnabledBanks == {ab \in {A, B} : \E i \in range(ab) : run.registers[i].int_enabled}
\* the bank of the k-th byte of a read that starts at the pointer addr, the
\* device toggling the pointer between the banks
ByteBank(addr, k) ==
    from_address(IF k = 1 THEN addr ELSE advance_address(addr, "Toggle"), FALSE).v.ab
\* the shape of the transaction: pointer to first of bank ab, n bytes read,
\* pointer to second of bank ab, n bytes read
TwoReads(tx, first, second, ab, n) ==
    tx.operations = <<[k |-> "Write", bytes |-> <<address_of([type |-> first, ab |-> ab], FALSE)>>],
                      [k |-> "Read", len |-> n],
                      [k |-> "Write", bytes |-> <<address_of([type |-> second, ab |-> ab], FALSE)>>],
                      [k |-> "Read", len |-> n]>>

-----------------------------------------------------------------------------
(* After a captured interrupt nobody asked for (lib.rs 516-583)            *)

\* the pins whose INTF bit was read as set in this iteration without a
\* WaitForState request accepted in it
Unrequested ==
    IF run.impl = "lib" /\ run.pc = "finish"
      THEN {i \in Pins : run.loc.captured_interrupts[i] /\ ~run.loc.new_int_requested[i]}
      ELSE {}
\* the k-th transaction of the iteration writes a byte to the register, or
\* reads a byte of it with write_read
WritesTo(k, register) ==
    /\ bus.iter[k].op = "write"
    /\ \E n \in 1 .. Len(bus.iter[k].tx.buffer) - 1 :
          from_address(IF n = 1 THEN bus.iter[k].addr
                       ELSE advance_address(bus.iter[k].addr, "Toggle"), FALSE)
             = Some(register)
ReadsFrom(k, register) ==
    /\ bus.iter[k].op = "write_read"
    /\ \E n \in 1 .. bus.iter[k].tx.read :
          from_address(IF n = 1 THEN bus.iter[k].addr
                       ELSE advance_address(bus.iter[k].addr, "Toggle"), FALSE)
             = Some(register)
Gpinten(i) == [type |-> GPINTEN, ab |-> from_index(i)]
Gpio(i) == [type |-> GPIO, ab |-> from_index(i)]

\* C25 as the spec has it: GPINTEN of the pin's bank is written in the
\* iteration, and GPIO of the bank is read.
C25_ClaimedWrite ==
    \A i \in Unrequested :
        /\ \E k \in 1 .. Len(bus.iter) : WritesTo(k, Gpinten(i))
        /\ \E k \in 1 .. Len(bus.iter) : ReadsFrom(k, Gpio(i))

\* C25: at the end of an iteration of lib.rs, for every pin whose INTF bit
\* was read as set with no WaitForState request accepted in the iteration:
\* the GPINTEN bit last written for the pin is 0 (written in this iteration
\* when the cache had the pin enabled), GPIO of the pin's bank was read with
\* write_read in this iteration, and no GPINTEN write follows that read in
\* the iteration, so a write that enables the pin again comes after it.
C25_DisabledThenRead ==
    \A i \in Unrequested :
        /\ ~into_bits_le(bus.written[Gpinten(i)])[i % 8]
        /\ run.registers[i].int_enabled => \E k \in 1 .. Len(bus.iter) : WritesTo(k, Gpinten(i))
        /\ \E k \in 1 .. Len(bus.iter) :
              /\ ReadsFrom(k, Gpio(i))
              /\ \A l \in k + 1 .. Len(bus.iter) :
                    \A ab \in {A, B} : ~WritesTo(l, [type |-> GPINTEN, ab |-> ab])
\* the interrupt of an enabled pin 8 was captured unrequested: GPINTEN B was
\* written and GPIO B read
C25_Witness ==
    /\ 8 \in Unrequested /\ run.registers[8].int_enabled
    /\ \E k \in 1 .. Len(bus.iter) : WritesTo(k, Gpinten(8))
    /\ \E k \in 1 .. Len(bus.iter) : ReadsFrom(k, Gpio(8))

-----------------------------------------------------------------------------
(* Controller and peripheral composed: Mcp23017::run of lib.rs drives the  *)
(* emulated device of peripheral/src over the bus, with no bus error.  One *)
(* input handle (pin 8) polls and waits; the outside world changes the     *)
(* level of the emulated pin.  pure.out is the set of levels the pin has   *)
(* had since the op in its slot was published, pure.step counts the level  *)
(* changes.                                                                *)

WaitPin == ActivePin(1)

InitSys ==
    /\ pure = [fn |-> "new", arg |-> 0, out |-> {"Low"}, step |-> 0]
    /\ per = new([i \in Pins |-> "Low"], TRUE)
    /\ pins = PinsInit /\ hnd = HndInit
    /\ bus = [BusInit EXCEPT !.faulty = FALSE]
    /\ run = RunInit("lib")

\* Pin<Input>::state / wait_for_state on the handle
SysCall ==
    /\ \E c \in InputCalls(WaitPin) :
          /\ Publish(WaitPin, c)
          /\ pure' = IF pins[WaitPin].op = c.new_op THEN pure
                     ELSE [pure EXCEPT !.fn = c.fn,
                                       !.out = {per.gpio_pins[WaitPin].ext}]
    /\ UNCHANGED <<per, run>>

\* the outside world changes the level of the pin
SysPinLevel ==
    /\ pure.step < MaxPerOps
    /\ per' = [per EXCEPT !.gpio_pins[WaitPin].ext = Not(@)]
    /\ pure' = [pure EXCEPT !.fn = "level", !.step = @ + 1,
                            !.out = @ \cup {Not(per.gpio_pins[WaitPin].ext)}]
    /\ UNCHANGED ctl

\* (a slip: only a detector that compares with the previous value completes)
SysCapture_PreviousOnly ==
    /\ \E i \in Pins :
          /\ Armed(per, i) /\ per.interrupt_control[i] = "CompareWithPreviousValue"
          /\ per.gpio_pins[i].ext = Not(compare_value(per, i))
          /\ per' = Captured(per, i, Not(compare_value(per, i)))
    /\ UNCHANGED <<pure, ctl>>
\* Mcp23017::run of the peripheral: a detector completes
SysCapture ==
    /\ \E i \in Pins :
          /\ Armed(per, i)
          /\ per.gpio_pins[i].ext = Not(compare_value(per, i))
          /\ per' = Captured(per, i, Not(compare_value(per, i)))
    /\ UNCHANGED <<pure, ctl>>

SysRunner ==
    \/ LibResetPulse \/ ConfigureIocon
    \/ LibSnapshot \/ LibWrite \/ LibInterrupt \/ LibGpioRead \/ LibFinish
    \/ LibWake \/ LibWatcher

NextSys == SysCall \/ ResponseWake \/ DropCall \/ SysPinLevel \/ SysCapture \/ SysRunner

SpecSys ==
    /\ InitSys /\ [][NextSys]_vars
    /\ WF_vars(SysRunner) /\ WF_vars(SysCapture)

\* C24: the runner turns a slot that holds Input{WaitForState(s)} to Done
\* only if the pin has had level s at some moment since that request was
\* published.
C24_DoneOnlyAfterLevel ==
    [][(/\ IsInputOp(pins[WaitPin].op, "WaitForState")
        /\ pins[WaitPin].state = "ProcessingRequest"
        /\ pins'[WaitPin].state = "Done")
          => pins[WaitPin].op.op.v.state \in pure.out]_vars

\* The composed system under fair scheduling, with a handle that keeps each
\* call until it returns: the executor keeps polling the runner task, and the
\* device task completes a detector that can fire.
NextSysFair == SysCall \/ ResponseWake \/ SysPinLevel \/ SysCapture \/ SysRunner
SpecSysFair ==
    /\ InitSys /\ [][NextSysFair]_vars
    /\ WF_vars(SysRunner) /\ WF_vars(SysCapture)

\* the slot of the pin holds an accepted WaitForState(High) request while the
\* emulated pin is High
WaitingHigh ==
    /\ IsInputOp(pins[WaitPin].op, "WaitForState")
    /\ pins[WaitPin].op.op.v.state = "High"
    /\ pins[WaitPin].state = "ProcessingRequest"
    /\ per.gpio_pins[WaitPin].ext = "High"
\* the pin went Low again, or the handle replaced the request
Withdrawn ==
    \/ per.gpio_pins[WaitPin].ext = "Low"
    \/ ~(IsInputOp(pins[WaitPin].op, "WaitForState") /\ pins[WaitPin].op.op.v.state = "High")

\* C21: controller and peripheral composed, no bus error, fair scheduling of
\* the runner and of the device: once a WaitForState(High) request has been
\* accepted and the pin is High, then, unless the pin goes Low again or the
\* request is replaced, the device eventually asserts the interrupt line, the
\* runner eventually reads INTF with the pin's bit set, and the slot
\* eventually reaches Done.
C21_HighEventuallyDone ==
    /\ WaitingHigh ~> (IntLow \/ pins[WaitPin].state = "Done" \/ Withdrawn)
    /\ WaitingHigh ~> (run.loc.captured_interrupts[WaitPin] \/ pins[WaitPin].state = "Done" \/ Withdrawn)
    /\ WaitingHigh ~> (pins[WaitPin].state = "Done" \/ Withdrawn)
\* the pin rose once, the device captured the rise, the runner read the
\* flag (the read cleared it) and the request has been completed
C21_Witness ==
    /\ IsInputOp(pins[WaitPin].op, "WaitForState")
    /\ pins[WaitPin].op.op.v.state = "High"
    /\ pins[WaitPin].state = "Done"
    /\ per.gpio_pins[WaitPin].ext = "High"
    /\ per.known_input_states[WaitPin] = "High" /\ ~per.int_flags[WaitPin]
    /\ pure.step = 1

-----------------------------------------------------------------------------
(* The batched GPIO read: read_registers of register.rs (the one run of    *)
(* runner.rs calls) and the inline read of lib.rs 544-583, each applied to *)
(* a set of requested pins and answered by the emulated device after       *)
(* reset (every pin an input, BANK = 0, SEQOP = 0), whose pins have the    *)
(* levels pure.arg.levels.                                                 *)

InitRead ==
    /\ pure \in [fn : {"read_registers", "read_gpios"},
                 arg : [requested : BitVectors, levels : BitVectors],
                 out : {0}, step : {0}]
    /\ per = PerIdle
    /\ CtlIdle

\* the write_read of one register address and count bytes, as the device
\* answers it
DeviceRead(levels, address, count) ==
    prepare_read_buffer(
        process_write_transaction(new([i \in Pins |-> PinState_from(levels[i])], TRUE),
                                  <<address>>),
        [k \in 1 .. count |-> 0]).v
\* the address and the length of the write_read, << >> where none is issued
ReadIssued(requested) ==
    LET want == [ab \in {A, B} |-> \E i \in range(ab) : requested[i]]
    IN  IF BankCount(want) = 0 THEN << >>
        ELSE <<address_of([type |-> GPIO, ab |-> IF want[A] THEN A ELSE B], FALSE),
               BankCount(want)>>

ApplyReadRegisters ==
    /\ pure.fn = "read_registers" /\ pure.step = 0
    /\ LET values == [i \in Pins |-> IF pure.arg.requested[i] THEN Some(FALSE) ELSE None]
           issued == ReadIssued(pure.arg.requested)
       IN  pure' = [pure EXCEPT
              !.out = [issued |-> issued,
                       before |-> values,
                       values |-> IF issued = << >> THEN values
                                  ELSE read_registers(values,
                                         DeviceRead(pure.arg.levels, issued[1], issued[2]))],
              !.step = 1]
    /\ UNCHANGED <<per, ctl>>

ApplyReadGpios ==
    /\ pure.fn = "read_gpios" /\ pure.step = 0
    /\ LET issued == ReadIssued(pure.arg.requested)
           states == IF issued = << >> THEN [i \in Pins |-> None]
                     ELSE GpioStates(\E i \in range(A) : pure.arg.requested[i],
                                     DeviceRead(pure.arg.levels, issued[1], issued[2]))
       IN  pure' = [pure EXCEPT
              !.out = [issued |-> issued,
                       before |-> [i \in Pins |-> None],
                       values |-> [i \in Pins |->
                                     IF states[i] = None THEN None
                                     ELSE Some(bool_from(states[i].v))]],
              !.step = 1]
    /\ UNCHANGED <<per, ctl>>

NextRead == ApplyReadRegisters \/ ApplyReadGpios
SpecRead == InitRead /\ [][NextRead]_vars

\* C31: a batched GPIO read issues one write_read that starts at GPIO of
\* bank A when a pin of bank A is requested and at GPIO of bank B otherwise,
\* for one byte per requested bank; afterwards every requested pin holds
\* the level the device reported for it (bit i mod 8 of the byte of bank
\* i div 8), and every pin not requested holds what it held before.
C31_BatchedRead ==
    (pure.fn \in {"read_registers", "read_gpios"} /\ pure.step = 1) =>
        LET req_a == \E i \in range(A) : pure.arg.requested[i]
            req_b == \E i \in range(B) : pure.arg.requested[i]
        IN  /\ pure.out.issued =
                 IF ~req_a /\ ~req_b THEN << >>
                 ELSE <<IF req_a THEN 2 * GPIO ELSE 2 * GPIO + 1,
                        (IF req_a THEN 1 ELSE 0) + (IF req_b THEN 1 ELSE 0)>>
            /\ \A i \in Pins :
                  IF pure.arg.requested[i]
                    THEN pure.out.values[i] = Some(pure.arg.levels[i])
                    ELSE pure.out.values[i] = pure.out.before[i]

-----------------------------------------------------------------------------
(* controller/src/input.rs: the handle-side Input.  Input::new ends with a *)
(* GPIO read of the pin's bank, collect_captured_interrupts reads INTF and *)
(* INTCAP of the pin's bank; both are applied to a pin index and to the    *)
(* bytes the bus returned.                                                 *)

\* the bytes returned: none, one or all of the bits set
ReadBytes8 == {0, 255} \cup {Pow2(k) : k \in 0 .. 7}

\* Input::new, its last expression:
\* (byte & (1 << index / N_GPIO_PINS_PER_SET) != 0).into()
\* (`/` binds tighter than `<<`, and `&` tighter than `!=`)
Input_new(index, byte) ==
    PinState_from(BitOf(byte, index \div N_GPIO_PINS_PER_SET))

\* Input::collect_captured_interrupts after the transaction: the value
\* returned, and the (pin, state) pairs signalled through unread_interrupts
collect_captured_interrupts(index, flags_byte, captured_byte) ==
    LET captured_states ==
            [i \in 0 .. 7 |-> IF into_bits_le(flags_byte)[i]
                                THEN Some(PinState_from(into_bits_le(captured_byte)[i]))
                                ELSE None]
        self_pin_index_within_byte == index \div N_GPIO_PINS_PER_SET
    IN  [ret |-> captured_states[self_pin_index_within_byte],
         signalled |-> {<<starting_index(from_index(index)) + i, captured_states[i].v>> :
                          i \in {j \in 0 .. 7 : /\ j # self_pin_index_within_byte
                                                /\ captured_states[j] # None}}]

InitInput ==
    /\ pure \in [fn : {"Input_new", "collect_captured_interrupts"},
                 arg : [index : Pins, byte : ReadBytes8, flags_byte : ReadBytes8],
                 out : {0}, step : {0}]
    /\ per = PerIdle
    /\ CtlIdle

ApplyInputNew ==
    /\ pure.fn = "Input_new" /\ pure.step = 0
    /\ pure' = [pure EXCEPT !.out = Input_new(pure.arg.index, pure.arg.byte), !.step = 1]
    /\ UNCHANGED <<per, ctl>>

ApplyCollect ==
    /\ pure.fn = "collect_captured_interrupts" /\ pure.step = 0
    /\ pure' = [pure EXCEPT
                  !.out = collect_captured_interrupts(pure.arg.index, pure.arg.flags_byte,
                                                      pure.arg.byte),
                  !.step = 1]
    /\ UNCHANGED <<per, ctl>>

NextInput == ApplyInputNew \/ ApplyCollect
SpecInput == InitInput /\ [][NextInput]_vars

\* C32: for every pin index i, Input::new takes bit (i mod 8) of the GPIO
\* byte of the pin's bank as the initial state, and
\* collect_captured_interrupts returns the captured state of bit (i mod 8)
\* (nothing when that bit is not flagged) and signals every other flagged
\* bit j of the bank, with its captured state, to pin 8 * (i div 8) + j.
C32_BitOfPin ==
    LET i == pure.arg.index
        flagged(j) == BitOf(pure.arg.flags_byte, j)
        state(j) == PinState_from(BitOf(pure.arg.byte, j))
    IN  /\ (pure.fn = "Input_new" /\ pure.step = 1) => pure.out = state(i % 8)
        /\ (pure.fn = "collect_captured_interrupts" /\ pure.step = 1) =>
              /\ pure.out.ret = IF flagged(i % 8) THEN Some(state(i % 8)) ELSE None
              /\ pure.out.signalled =
                    {<<8 * (i \div 8) + j, state(j)>> :
                        j \in {k \in 0 .. 7 : k # i % 8 /\ flagged(k)}}

-----------------------------------------------------------------------------
(* run of runner.rs composed with the emulated device, no bus error: the   *)
(* handle of pin 8 calls into_watch, the outside world changes the level   *)
(* of the pin; the runner task and the device's run loop are polled        *)
(* fairly.                                                                 *)

InitSysWatch ==
    /\ pure = [fn |-> "new", arg |-> 0, out |-> {"Low"}, step |-> 0]
    /\ per = new([i \in Pins |-> "Low"], TRUE)
    /\ pins = PinsInit /\ hnd = HndInit
    /\ bus = [BusInit EXCEPT !.faulty = FALSE]
    /\ run = RunInit("runner")

SysWatchRunner == ConfigureIocon \/ RunSnapshot \/ RunWrite \/ RunGpioRead \/ RunComplete

NextSysWatch ==
    \/ CallIntoWatch \/ ResponseWake \/ SysPinLevel \/ SysCapture \/ SysWatchRunner

SpecSysWatch ==
    /\ InitSysWatch /\ [][NextSysWatch]_vars
    /\ WF_vars(SysWatchRunner) /\ WF_vars(SysCapture)

\* the slot of the pin holds an accepted Watch op
Watching == pins[WaitPin].op.k = "Watch" /\ pins[WaitPin].state = "ProcessingRequest"

\* C33: for a pin in Watch mode, with run of runner.rs and the device
\* composed and no bus error: every GPINTEN write made while the op is Watch
\* has the pin's bit set; and when the pin is at a level and stays there,
\* last_known_value eventually equals that level, the op still being Watch;
\* a step that changes last_known_value raises the response signal and
\* leaves the op Watch.
C33_WatchFollowsLevel ==
    /\ [][(/\ Watching
           /\ bus'.written[Gpinten(WaitPin)] # bus.written[Gpinten(WaitPin)])
             => into_bits_le(bus'.written[Gpinten(WaitPin)])[WaitPin % 8]]_vars
    /\ [][(/\ Watching /\ pins'[WaitPin].op # pins[WaitPin].op /\ run' # run)
             => /\ pins'[WaitPin].op.k = "Watch"
                /\ pins'[WaitPin].response_signal]_vars
    /\ \A level \in {"Low", "High"} :
          (Watching /\ per.gpio_pins[WaitPin].ext = level)
             ~> \/ ~Watching
                \/ per.gpio_pins[WaitPin].ext # level
                \/ pins[WaitPin].op.last_known_value = Some(level)

-----------------------------------------------------------------------------
(* The "previous value" of the emulated device: known_input_states         *)
(* (read_side_effects, mcp23017.rs 532-561, and run, 568-632)              *)

\* the read covers the register of the bank
CoversRegister(p, from, type, ab) ==
    \E a \in AddressesRead(p, from.address, from.n) :
        from_address(a, p.bank_mode) = Some([type |-> type, ab |-> ab])

\* C34 as the spec has it: known_input_states[i] is the level pin i had at
\* the most recent confirmed GPIO or INTCAP read of its bank: such a read
\* stores the level, and nothing else changes it (a reset apart).
C34_ClaimedPrevious ==
    [][\A i \in Pins :
          IF pure'.fn = "confirm_bytes_read" /\ ~per'.panicked
               /\ \E type \in {GPIO, INTCAP} :
                     CoversRegister(per, pure'.arg, type, from_index(i))
            THEN per'.known_input_states[i] = GpioLevel(per, i)
            ELSE pure'.fn \notin {"reset", "process_write_transaction"} =>
                    per'.known_input_states[i] = per.known_input_states[i]]_vars

\* C34: known_input_states[i] is the level pin i had (the latch of an
\* output) when a GPIO read of its bank was last confirmed, or the level
\* captured by the pin's own interrupt if that came later (Low after a
\* reset); a confirmed INTCAP read leaves it.  The detector of a pin
\* completes only when the pin is armed (GPINTEN set, INTF clear) and the
\* adapter's level differs from the compare value (known_input_states[i]
\* with compare-with-previous, DEFVAL[i] with compare-with-configured), and
\* while that is so it can complete.
C34_KnownInputState ==
    /\ [][\A i \in Pins :
            CASE pure'.fn = "confirm_bytes_read" /\ ~per'.panicked
                   /\ CoversRegister(per, pure'.arg, GPIO, from_index(i)) ->
                     per'.known_input_states[i] = GpioLevel(per, i)
              [] pure'.fn = "capture" /\ pure'.arg = i ->
                     /\ per.int_enabled[i] /\ ~per.int_flags[i]
                     /\ per.gpio_pins[i].ext #
                          (IF per.interrupt_control[i] = "CompareWithPreviousValue"
                             THEN per.known_input_states[i] ELSE per.int_compare[i])
                     /\ per'.known_input_states[i] = per.gpio_pins[i].ext
              [] pure'.fn = "reset" -> per'.known_input_states[i] = "Low"
              [] OTHER -> per'.known_input_states[i] = per.known_input_states[i]]_vars
    /\ [](\A i \in Pins :
            (/\ ~per.panicked /\ per.int_enabled[i] /\ ~per.int_flags[i]
             /\ per.gpio_pins[i].ext #
                  (IF per.interrupt_control[i] = "CompareWithPreviousValue"
                     THEN per.known_input_states[i] ELSE per.int_compare[i]))
               => ENABLED <<RunCapture>>_vars)
\* an INTCAP read of the bank of a pin that compares with the previous
\* value was confirmed after the pin's interrupt: the known state is the
\* captured level
C34_Witness ==
    /\ pure.fn = "confirm_bytes_read" /\ ~per.panicked
    /\ \E i \in Pins :
          /\ CoversRegister(per, pure.arg, INTCAP, from_index(i))
          /\ ~CoversRegister(per, pure.arg, GPIO, from_index(i))
          /\ per.int_enabled[i] /\ per.interrupt_control[i] = "CompareWithPreviousValue"
          /\ per.known_input_states[i] = "High" /\ per.gpio_pins[i].ext = "High"

-----------------------------------------------------------------------------
(* The arithmetic of advance_address over the whole range of the pointer   *)
(* (mcp23017.rs 644-662; the pointer is the first byte of a write          *)
(* transaction, process_write_transaction 144-162)                         *)

\* C38: for every pointer value 0..255 and every advance mode, the value
\* advance_address computes is in 0..255 (no u8 overflow or underflow) and
\* is the next pointer: the advance neither panics nor wraps.
C38_AdvanceInRange ==
    [][pure.fn = "advance_address" =>
          /\ advance_address(pure.out, advance_address_mode(pure.arg)) \in Bytes
          /\ pure'.out = advance_address(pure.out, advance_address_mode(pure.arg))]_vars

-----------------------------------------------------------------------------
(* A GPIO read of the emulated device with the levels changing between     *)
(* prepare_read_buffer and confirm_bytes_read (mcp23017.rs 164-196,        *)
(* 489-505, 532-561).  The device has its configuration of new(), with     *)
(* GPINTEN written for pins 0 and 8 and the pointer at GPIO of a bank;     *)
(* pure keeps the buffer returned (out) and where the read started (arg).  *)

InitReadRace ==
    /\ \E ext \in [LevelPins -> {"Low", "High"}], enabled \in [{A, B} -> TxData], ab \in {A, B} :
          per = process_write_transaction(
                  process_write_transaction(
                    new([i \in Pins |-> IF i \in LevelPins THEN ext[i] ELSE "Low"], TRUE),
                    <<address_of([type |-> GPINTEN, ab |-> A], FALSE),
                      enabled[A], enabled[B]>>),
                  <<address_of([type |-> GPIO, ab |-> ab], FALSE)>>)
    /\ pure = [fn |-> "new", arg |-> 0, out |-> << >>, step |-> 0]
    /\ CtlIdle

\* prepare_read_buffer(&mut [0; n]): the bytes the controller receives
ReadPrepared ==
    /\ pure.fn = "new"
    /\ \E n \in ReadLengths :
          pure' = [fn |-> "prepare_read_buffer", arg |-> ReadFrom(n),
                   out |-> prepare_read_buffer(per, [k \in 1 .. n |-> 0]).v, step |-> 1]
    /\ UNCHANGED <<per, ctl>>

\* the outside world changes levels while the bytes are on the bus
ReadLevel ==
    /\ pure.fn = "prepare_read_buffer"
    /\ \E flip \in (SUBSET LevelPins) \ {{}} :
          per' = [per EXCEPT !.gpio_pins =
                     [i \in Pins |-> IF i \in flip THEN [@[i] EXCEPT !.ext = Not(@)]
                                     ELSE @[i]]]
    /\ pure' = [pure EXCEPT !.fn = "level", !.step = 2]
    /\ UNCHANGED ctl

\* confirm_bytes_read(n), all the bytes of the buffer having been read
ReadConfirmed ==
    /\ pure.fn \in {"prepare_read_buffer", "level"}
    /\ per' = confirm_bytes_read(per, pure.arg.n)
    /\ pure' = [pure EXCEPT !.fn = "confirm_bytes_read", !.step = 3]
    /\ UNCHANGED ctl

\* run, after the read: the detector of an armed pin completes
ReadCapture ==
    /\ pure.fn = "confirm_bytes_read"
    /\ \E i \in Pins :
          /\ Armed(per, i)
          /\ per.gpio_pins[i].ext = Not(compare_value(per, i))
          /\ per' = Captured(per, i, Not(compare_value(per, i)))
    /\ pure' = [pure EXCEPT !.fn = "capture", !.step = 4]
    /\ UNCHANGED ctl

NextReadRace == ReadPrepared \/ ReadLevel \/ ReadConfirmed \/ ReadCapture
SpecReadRace == InitReadRace /\ [][NextReadRace]_vars

\* the address the k-th byte of a read comes from
RECURSIVE AddressOfByte(_, _, _)
AddressOfByte(p, address, k) ==
    IF k = 1 THEN address
    ELSE AddressOfByte(p, advance_address(address, advance_address_mode(p)) % 256, k - 1)

\* C37: when a GPIO read of bank X is confirmed, the known_input_states
\* stored for each input pin of X is the bit of that pin in the byte
\* prepare_read_buffer returned, also when the level changed between
\* prepare_read_buffer and confirm_bytes_read; so an armed
\* compare-with-previous pin whose level is not the bit returned has its
\* detector's condition met after the read.
C37_KnownIsReturnedBit ==
    [][pure'.fn = "confirm_bytes_read" =>
          \A k \in 1 .. pure.arg.n, ab \in {A, B}, i \in Pins :
              LET returned == PinState_from(BitOf(pure.out[k], i - starting_index(ab)))
              IN  (/\ from_address(AddressOfByte(per, pure.arg.address, k), per.bank_mode)
                        = Some([type |-> GPIO, ab |-> ab])
                   /\ i \in range(ab)
                   /\ per.io_directions[i] = "Input")
                    => /\ per'.known_input_states[i] = returned
                       /\ (Armed(per', i) /\ per'.gpio_pins[i].ext # returned)
                             => per'.gpio_pins[i].ext = Not(compare_value(per', i))]_vars

-----------------------------------------------------------------------------
(* The transactions of the controller's register.rs applied to the         *)
(* emulated device (write_registers, register.rs 8-55;                     *)
(* process_write_transaction and the read methods, mcp23017.rs 144-196).   *)
(* The device has had the startup write [IOCON, 0x44]; the controller      *)
(* keeps, per register, the sixteen bits it sent last (pure.sent); the     *)
(* transactions of a run are counted (pure.step).                          *)

\* the registers the controller's caches stand for, the bytes it sends
WrittenKinds == {IODIR, GPPU, OLAT, DEFVAL, INTCON, GPINTEN}
RefineBytes == {0, 165}
\* the number of transactions of a run
MaxRefineOps == 3
\* the per-pin array of the device behind a register, as bits
RegisterArray(p, type) ==
    CASE type = IODIR -> [i \in Pins |-> bool_from(p.io_directions[i])]
      [] type = GPPU -> p.pull_up_enabled
      [] type = OLAT -> [i \in Pins |-> bool_from(p.output_latches[i])]
      [] type = DEFVAL -> [i \in Pins |-> bool_from(p.int_compare[i])]
      [] type = INTCON -> [i \in Pins |-> bool_from(p.interrupt_control[i])]
      [] type = GPINTEN -> p.int_enabled

InitRefine ==
    /\ per = process_write_transaction(
               new([i \in Pins |-> IF i = 0 THEN "High" ELSE "Low"], TRUE),
               <<IoconAddress, 68>>)
    /\ pure = [fn |-> "startup", arg |-> [register |-> IOCON, bytes |-> <<IoconAddress, 68>>],
               out |-> None, step |-> 0,
               sent |-> [type \in WrittenKinds |-> [i \in Pins |-> type = IODIR]]]
    /\ CtlIdle

\* write_registers(i2c, address, register, current_values, new_values)
\* with the cache as current_values, the device taking the transaction
RefineWrite ==
    /\ ~per.panicked /\ pure.step < MaxRefineOps
    /\ \E register \in WrittenKinds, a \in RefineBytes, b \in RefineBytes :
          LET new_values == [i \in Pins |-> IF i \in range(A) THEN BitOf(a, i)
                                            ELSE BitOf(b, i - starting_index(B))]
              writes == write_registers(register, pure.sent[register], new_values)
          IN  /\ writes # << >>
              /\ per' = process_write_transaction(per, writes[1])
              /\ pure' = [fn |-> "write",
                          arg |-> [register |-> register, bytes |-> writes[1]],
                          out |-> None, step |-> pure.step + 1,
                          sent |-> [pure.sent EXCEPT ![register] = new_values]]
    /\ UNCHANGED ctl

\* i2c.write_read(address, &[Register{register, A}.address(false)],
\* &mut buffer[..2]): the pointer, the two bytes, the confirmation
RefineRead ==
    /\ ~per.panicked /\ pure.step < MaxRefineOps
    /\ \E register \in Kinds :
          LET pointer == <<address_of([type |-> register, ab |-> A], FALSE)>>
              pointed == process_write_transaction(per, pointer)
              buffer == prepare_read_buffer(pointed, <<0, 0>>)
          IN  /\ per' = IF buffer = None THEN [pointed EXCEPT !.panicked = TRUE]
                        ELSE confirm_bytes_read(pointed, 2)
              /\ pure' = [pure EXCEPT !.fn = "read",
                                      !.arg = [register |-> register, bytes |-> pointer],
                                      !.out = buffer, !.step = @ + 1]
    /\ UNCHANGED ctl

NextRefine == RefineWrite \/ RefineRead
SpecRefine == InitRefine /\ [][NextRefine]_vars

\* the arrays of the device are the bits the controller sent last
ArraysAsSent(p, sent) == \A type \in WrittenKinds : RegisterArray(p, type) = sent[type]
\* a write [addr(K,A), a, b] leaves K of bank A at a and of bank B at b; a
\* write [addr(K,X), v] leaves K of bank X at v and every other bank of the
\* six arrays as it was
WriteTaken(p, q, register, bytes) ==
    IF Len(bytes) = 3
      THEN /\ bytes[1] = address_of([type |-> register, ab |-> A], FALSE)
           /\ BankValue(RegisterArray(q, register), A) = bytes[2]
           /\ BankValue(RegisterArray(q, register), B) = bytes[3]
      ELSE \E ab \in {A, B} :
              /\ bytes[1] = address_of([type |-> register, ab |-> ab], FALSE)
              /\ BankValue(RegisterArray(q, register), ab) = bytes[2]
              /\ \A type \in WrittenKinds, other \in {A, B} :
                    <<type, other>> # <<register, ab>> =>
                        BankValue(RegisterArray(q, type), other)
                            = BankValue(RegisterArray(p, type), other)
\* a two-byte read from addr(K,A) has given K of bank A, then K of bank B
ReadGiven(p, register, buffer) ==
    /\ buffer # None
    /\ buffer.v = <<read_register(p, [type |-> register, ab |-> A]).v,
                    read_register(p, [type |-> register, ab |-> B]).v>>
    /\ register \in WrittenKinds =>
          buffer.v = <<BankValue(RegisterArray(p, register), A),
                       BankValue(RegisterArray(p, register), B)>>

-----------------------------------------------------------------------------
(* The iterations of the two runners that find no work (lib.rs 585-609,    *)
(* runner.rs 54-68 and 200-227)                                            *)

\* the step puts a transaction of the loop on the bus
LoopEmits ==
    /\ run.pc \in {"iodir", "gppu", "olat", "defval", "intcon", "intr", "gpinten", "gpio"}
    /\ Len(bus'.iter) > Len(bus.iter)
\* the snapshot of the iteration has a slot in state Requested
SnapshotRequested == \E i \in Pins : run.requests[i].state = "Requested"

\* the interrupt input has not been low so far: every event counted was a
\* call, one on each handle whose slot has left its first op
InterruptNeverLow ==
    /\ ~IntLow /\ ~run.pending_interrupt
    /\ bus.events = Cardinality({i \in ActivePins : pins[i].op # PinsInit[i].op})

-----------------------------------------------------------------------------
(* pending_interrupt of lib.rs (199-215, 455-466, 585-609) with the        *)
(* emulated device on the bus: the interrupt input is the device's INTA,   *)
(* low from a capture until the flags are cleared.                         *)

\* the runner has just issued the transaction that reads INTF
IntfJustRead ==
    /\ run.pc = "gpinten" /\ bus.iter # << >>
    /\ bus.iter[Len(bus.iter)].op = "transaction"
    /\ from_address(bus.iter[Len(bus.iter)].addr, FALSE) # None
    /\ from_address(bus.iter[Len(bus.iter)].addr, FALSE).v.type = INTF

\* the runner has ended: an error, a todo! or an unwrap
RunnerEnded == run.pc \in {"terminated", "panicked"}

\* C39 as the spec has it: controller (lib.rs) and peripheral composed, no
\* bus error, fair scheduling of the runner and of the device: whenever
\* the interrupt input is low, the runner eventually issues the
\* transaction that reads INTF.
C39_ClaimedIntfRead == IntLow ~> (IntfJustRead \/ RunnerEnded)

\* C39: controller (lib.rs) and peripheral composed, no bus error, fair
\* scheduling of the runner and of the device: whenever the interrupt input
\* is low, the runner eventually issues the transaction that reads INTF or
\* the line is released without it (by the GPIO read of the iteration in
\* progress, which clears the flags); and when pending_interrupt has been
\* cleared at the end of an iteration with the line still low (the watcher
\* still waiting for the flag to clear), the runner eventually issues the
\* transaction that reads INTF.
C39_InterruptServiced ==
    /\ IntLow ~> (IntfJustRead \/ ~IntLow \/ RunnerEnded)
    /\ (IntLow /\ ~run.pending_interrupt /\ run.watcher = "wait_cleared")
          ~> (IntfJustRead \/ RunnerEnded)
\* pending_interrupt was set during an iteration past its INTF check and
\* cleared at the end of that iteration: the loop is at its top, the flag
\* is clear, the watcher has not yet gone back to wait_for_low, and the
\* device still holds the line low with the flag of the pin set
C39_Witness ==
    /\ run.pc = "top" /\ run.watcher = "wait_cleared" /\ ~run.pending_interrupt
    /\ IntLow /\ per.int_flags[WaitPin]

====
